---------------------------- MODULE Spec2Model ----------------------------
(***************************************************************************)
(* Crypto-Clash-Bot: the prediction lifecycle of src/crypto_clash_bot.py.  *)
(*                                                                         *)
(* The bot is one asyncio process.  Handlers and the job-queue callback    *)
(* run as coroutines that give up control only at an await that really     *)
(* suspends (a Telegram call, asyncio.sleep); requests.get blocks the      *)
(* whole process.  Every action below is the code between two such         *)
(* suspension points.                                                      *)
(***************************************************************************)
EXTENDS Integers, Sequences, FiniteSets, TLC

(***************************************************************************)
(* Binary64 arithmetic.  Python evaluates the reward and the percentage    *)
(* move in IEEE-754 doubles; the operators below compute the same results  *)
(* (round to nearest, ties to even) on natural numbers held as sequences   *)
(* of base-2^14 limbs, least significant first.  Results stay far from the *)
(* subnormal and overflow ranges, which are not modelled.                  *)
(***************************************************************************)
\* 14-bit limbs: a product of two limbs plus carries fits TLC's 32-bit integers
LimbBits == 7 + 7

LimbBase == 128 * 128

\* the significand of a binary64: 52 stored bits and the hidden bit
MantBits == 52 + 1

RECURSIVE Pow2(_)
Pow2(k) == IF k = 0 THEN 1 ELSE 2 * Pow2(k - 1)

RECURSIVE BigTrim(_)
BigTrim(a) ==
    IF a = <<>> THEN <<>>
    ELSE IF a[Len(a)] = 0 THEN BigTrim(SubSeq(a, 1, Len(a) - 1))
    ELSE a

RECURSIVE BigFromInt(_)
BigFromInt(n) ==
    IF n = 0 THEN <<>> ELSE <<n % LimbBase>> \o BigFromInt(n \div LimbBase)

RECURSIVE BigToInt(_)
BigToInt(a) ==
    IF a = <<>> THEN 0 ELSE Head(a) + LimbBase * BigToInt(Tail(a))

Limb(a, i) == IF i <= Len(a) THEN a[i] ELSE 0

MaxOf(x, y) == IF x >= y THEN x ELSE y

RECURSIVE BigAddFrom(_, _, _, _)
BigAddFrom(a, b, i, carry) ==
    IF i > MaxOf(Len(a), Len(b))
    THEN (IF carry = 0 THEN <<>> ELSE <<carry>>)
    ELSE LET t == Limb(a, i) + Limb(b, i) + carry
         IN  <<t % LimbBase>> \o BigAddFrom(a, b, i + 1, t \div LimbBase)

BigAdd(a, b) == BigTrim(BigAddFrom(a, b, 1, 0))

\* a - b for a >= b
RECURSIVE BigSubFrom(_, _, _, _)
BigSubFrom(a, b, i, borrow) ==
    IF i > Len(a) THEN <<>>
    ELSE LET t == Limb(a, i) - Limb(b, i) - borrow
         IN  IF t < 0
             THEN <<t + LimbBase>> \o BigSubFrom(a, b, i + 1, 1)
             ELSE <<t>> \o BigSubFrom(a, b, i + 1, 0)

BigSub(a, b) == BigTrim(BigSubFrom(a, b, 1, 0))

\* -1, 0, 1 as a < b, a = b, a > b (both trimmed), comparing from limb i down
RECURSIVE BigCmpFrom(_, _, _)
BigCmpFrom(a, b, i) ==
    IF i = 0 THEN 0
    ELSE IF a[i] < b[i] THEN -1
    ELSE IF a[i] > b[i] THEN 1
    ELSE BigCmpFrom(a, b, i - 1)

BigCmp(a, b) ==
    IF Len(a) < Len(b) THEN -1
    ELSE IF Len(a) > Len(b) THEN 1
    ELSE BigCmpFrom(a, b, Len(a))

\* a * k for 0 <= k < LimbBase
RECURSIVE BigMulSmallFrom(_, _, _, _)
BigMulSmallFrom(a, k, i, carry) ==
    IF i > Len(a)
    THEN (IF carry = 0 THEN <<>> ELSE <<carry>>)
    ELSE LET t == a[i] * k + carry
         IN  <<t % LimbBase>> \o BigMulSmallFrom(a, k, i + 1, t \div LimbBase)

BigMulSmall(a, k) == BigTrim(BigMulSmallFrom(a, k, 1, 0))

RECURSIVE BigMul(_, _)
BigMul(a, b) ==
    IF b = <<>> \/ a = <<>> THEN <<>>
    ELSE BigAdd(BigMulSmall(a, Head(b)),
                LET r == BigMul(a, Tail(b))
                IN  IF r = <<>> THEN <<>> ELSE <<0>> \o r)

RECURSIVE SmallBitLen(_)
SmallBitLen(n) == IF n = 0 THEN 0 ELSE 1 + SmallBitLen(n \div 2)

BigBitLen(a) ==
    IF a = <<>> THEN 0 ELSE (Len(a) - 1) * LimbBits + SmallBitLen(a[Len(a)])

\* bit i (0 = least significant) of a
BigBit(a, i) ==
    (Limb(a, (i \div LimbBits) + 1) \div Pow2(i % LimbBits)) % 2

\* a * 2^k
BigShl(a, k) ==
    IF a = <<>> THEN <<>>
    ELSE [j \in 1..(k \div LimbBits) |-> 0] \o BigMulSmall(a, Pow2(k % LimbBits))

\* floor(a / 2^k)
BigShr(a, k) ==
    LET drop == k \div LimbBits
        r == k % LimbBits
        rest == IF drop >= Len(a) THEN <<>> ELSE SubSeq(a, drop + 1, Len(a))
    IN  BigTrim([j \in 1..Len(rest) |->
                    (rest[j] \div Pow2(r))
                    + (Limb(rest, j + 1) % Pow2(r)) * Pow2(LimbBits - r)])

\* One bit of restoring division on s = <<quotient, remainder>>: bit k of a
\* is brought down into the remainder and the quotient bit is appended.
BigDivStep(a, b, k, s) ==
    LET r2 == BigAdd(BigMulSmall(s[2], 2), BigFromInt(BigBit(a, k)))
        q2 == BigMulSmall(s[1], 2)
    IN  IF BigCmp(r2, b) >= 0
        THEN <<BigAdd(q2, <<1>>), BigSub(r2, b)>>
        ELSE <<q2, r2>>

\* bits hi down to lo of a; every intermediate pair is computed before the
\* next bit is taken
RECURSIVE BigDivBits(_, _, _, _, _)
BigDivBits(a, b, hi, lo, s) ==
    IF hi < lo THEN s
    ELSE CHOOSE res \in {BigDivBits(a, b, hi - 1, lo, t) :
                            t \in {BigDivStep(a, b, hi, s)}} : TRUE

\* limbs i down to 1 of a
RECURSIVE BigDivLimbs(_, _, _, _)
BigDivLimbs(a, b, i, s) ==
    IF i = 0 THEN s
    ELSE CHOOSE res \in {BigDivLimbs(a, b, i - 1, t) :
                            t \in {BigDivBits(a, b, i * LimbBits - 1,
                                              (i - 1) * LimbBits, s)}} : TRUE

\* <<floor(a / b), a mod b>> for b > 0
BigDivMod(a, b) == BigDivLimbs(a, b, Len(a), <<<<>>, <<>>>>)

(* A double is [neg, m, e] meaning (-1)^neg * m * 2^e with m of exactly     *)
(* MantBits bits, or m = <<>> for zero.                                      *)
FZero == [neg |-> FALSE, m |-> <<>>, e |-> 0]

\* The double nearest to m * 2^e (m any natural; sticky: a non-zero part
\* below m's last bit was dropped), ties to even.
FRoundBits(neg, m, e, sticky) ==
    IF m = <<>> THEN FZero
    ELSE LET n == BigBitLen(m)
         IN  IF n <= MantBits
             THEN [neg |-> neg, m |-> BigShl(m, MantBits - n), e |-> e - (MantBits - n)]
             ELSE LET k == n - MantBits
                      q == BigShr(m, k)
                      half == BigBit(m, k - 1) = 1
                      low == sticky \/ BigCmp(BigShl(BigShr(m, k - 1), k - 1), m) # 0
                      up == half /\ (low \/ BigBit(q, 0) = 1)
                      q1 == IF up THEN BigAdd(q, <<1>>) ELSE q
                  IN  IF BigBitLen(q1) > MantBits
                      THEN [neg |-> neg, m |-> BigShr(q1, 1), e |-> e + k + 1]
                      ELSE [neg |-> neg, m |-> q1, e |-> e + k]

\* FRoundBits on the value of m
FRound(neg, m, e, sticky) ==
    CHOOSE r \in {FRoundBits(neg, v, e, sticky) : v \in {m}} : TRUE

\* float(n) for an integer n
FFromInt(n) ==
    IF n < 0 THEN FRound(TRUE, BigFromInt(-n), 0, FALSE)
    ELSE FRound(FALSE, BigFromInt(n), 0, FALSE)

FMul(x, y) ==
    IF x.m = <<>> \/ y.m = <<>> THEN FZero
    ELSE FRound(x.neg # y.neg, BigMul(x.m, y.m), x.e + y.e, FALSE)

FNeg(x) == IF x.m = <<>> THEN x ELSE [x EXCEPT !.neg = ~x.neg]

FAdd(x, y) ==
    IF x.m = <<>> THEN y
    ELSE IF y.m = <<>> THEN x
    ELSE LET e0 == IF x.e <= y.e THEN x.e ELSE y.e
             mx == BigShl(x.m, x.e - e0)
             my == BigShl(y.m, y.e - e0)
         IN  IF x.neg = y.neg THEN FRound(x.neg, BigAdd(mx, my), e0, FALSE)
             ELSE IF BigCmp(mx, my) = 0 THEN FZero
             ELSE IF BigCmp(mx, my) > 0 THEN FRound(x.neg, BigSub(mx, my), e0, FALSE)
             ELSE FRound(y.neg, BigSub(my, mx), e0, FALSE)

FSub(x, y) == FAdd(x, FNeg(y))

\* x / y for y # 0: 56 or 57 quotient bits and a sticky bit decide the rounding
FDiv(x, y) ==
    IF x.m = <<>> THEN FZero
    ELSE LET qr == BigDivMod(BigShl(x.m, MantBits + 3), y.m)
         IN  FRound(x.neg # y.neg, qr[1], x.e - y.e - (MantBits + 3), qr[2] # <<>>)

\* -1, 0, 1 as x < y, x = y, x > y
FCmpMag(x, y) ==
    IF x.m = <<>> /\ y.m = <<>> THEN 0
    ELSE IF x.m = <<>> THEN -1
    ELSE IF y.m = <<>> THEN 1
    ELSE IF x.e < y.e THEN -1
    ELSE IF x.e > y.e THEN 1
    ELSE BigCmp(x.m, y.m)

FCmp(x, y) ==
    IF x.m = <<>> /\ y.m = <<>> THEN 0
    ELSE IF x.neg /\ ~y.neg THEN -1
    ELSE IF ~x.neg /\ y.neg THEN 1
    ELSE IF x.m = <<>> THEN (IF y.neg THEN 1 ELSE -1)
    ELSE IF y.m = <<>> THEN (IF x.neg THEN -1 ELSE 1)
    ELSE IF x.neg THEN FCmpMag(y, x) ELSE FCmpMag(x, y)

\* int(x): truncation toward zero
FTrunc(x) ==
    IF x.m = <<>> THEN 0
    ELSE LET mag == IF x.e >= 0 THEN BigToInt(BigShl(x.m, x.e))
                    ELSE BigToInt(BigShr(x.m, -x.e))
         IN  IF x.neg THEN -mag ELSE mag

\* the double a decimal literal with `digits` fraction digits parses to:
\* n / 10^digits correctly rounded
RECURSIVE Pow10(_)
Pow10(k) == IF k = 0 THEN 1 ELSE 10 * Pow10(k - 1)

FDecimal(n, digits) == FDiv(FFromInt(n), FFromInt(Pow10(digits)))

(***************************************************************************)
(* Bounds of the model.                                                    *)
(***************************************************************************)
\* seconds the clock advances in one Tick
TickStep == 60

\* Tick is disabled once the clock is this many seconds past Epoch
MaxElapsed == 60

\* predictions ever stored
MaxPredictions == 1

\* button clicks ever received
MaxClicks == 2

\* inputs besides accepted /predict and /check taken by the whole bot:
\* button clicks, /start answers, daily challenges drawn, airdrops and
\* refused /predict commands
MaxInputs == 2

\* predictions stored in the specifications of /predict alone
MaxStored == 2

\* seconds the clock advances in one Nap, the scale of an asyncio.sleep of
\* get_crypto_price
NapStep == 2

\* Nap is disabled once the clock is this many seconds past Epoch
MaxNapped == 4

\* the clock at construction (time.time() is seconds since 1970, so every
\* `now - 0` comparison against a player's initial last_play or
\* last_challenge_reset already exceeds its threshold)
Epoch == 2 * 86400

Users == {1, 2}

\* the user who issues commands; the other user only clicks buttons
Owner == CHOOSE u \in Users : \A v \in Users : u <= v

Chats == {10}

Chat == CHOOSE c \in Chats : TRUE

\* the part of crypto_symbols the model draws from
CryptoSymbols == {"bitcoin"}

\* quotes the price API can return, in cents (usd = Prices / 100); 0 is a
\* falsy quote
Prices == {0, 10000, 10100}

\* start and final quotes the resolution is applied to in SpecResolve
LedgerPrices == {9800, 10000, 10100, 10110, 10150}

\* every non-zero quote of the model
QuotedPrices == (Prices \cup LedgerPrices) \ {0}

\* lengths of the winning runs behind the player records of SpecResolve
LedgerWins == {0, 13}

\* the amounts random.randint(50, 200) of /airdrop is drawn from: both ends
\* and one amount between
AirdropAmounts == {50, 123, 200}

\* streak_shields of the player records of SpecResolve.  No handler of the
\* bot grants a shield, so a running bot only ever holds 0; the shield
\* branch of lines 743-746 is exercised on the drawn value 1.
ShieldDraws == {0, 1}

(***************************************************************************)
(* Program constants.                                                      *)
(***************************************************************************)
cache_duration == 30

min_api_interval == 2

retries == 2

PredictionWindow == 60

CooldownFree == 45

CooldownPro == 30

OgSlots == 10

DayLength == 86400

base_reward == 100

ParticipationXp == 10

level_requirements ==
    <<0, 100, 250, 500, 1000, 2000, 4000, 8000, 15000, 30000>>

\* self.achievements, in the order check_achievements tests them
AchievementIds ==
    <<"first_win", "streak_5", "streak_10", "whale_user", "high_roller",
      "prophet", "daily_warrior">>

AchievementReward(id) ==
    CASE id = "first_win" -> 500
      [] id = "streak_5" -> 1000
      [] id = "streak_10" -> 2500
      [] id = "whale_user" -> 1500
      [] id = "high_roller" -> 3000
      [] id = "prophet" -> 5000
      [] id = "daily_warrior" -> 2000

challenge_types ==
    { [type |-> "win_streak", target |-> 3, reward |-> 300],
      [type |-> "predictions", target |-> 5, reward |-> 200],
      [type |-> "whale_mode", target |-> 2, reward |-> 400],
      [type |-> "perfect_day", target |-> 3, reward |-> 500] }

(***************************************************************************)
(* PlayerLedger: the pure parts of the player bookkeeping.                 *)
(***************************************************************************)
\* get_player_data's record for a user it has not seen; last_airdrop is the
\* key airdrop_command adds, 0 while it is absent (line 982)
DefaultPlayer ==
    [streak |-> 0, best_streak |-> 0, last_play |-> 0, shard_tokens |-> 1000,
     whale_powerups |-> 1, og_status |-> FALSE, total_predictions |-> 0,
     wins |-> 0, referrals |-> 0, level |-> 1, xp |-> 0, achievements |-> <<>>,
     daily_challenges_completed |-> 0, streak_shields |-> 0,
     double_xp_remaining |-> 0, lucky_charms |-> 0, whale_uses |-> 0,
     perfect_streak |-> 0, last_challenge_reset |-> 0, last_airdrop |-> 0]

\* no entry in daily_challenges
NoChallenge ==
    [type |-> "none", progress |-> 0, target |-> 0, reward |-> 0,
     completed |-> FALSE]

RECURSIVE LevelFrom(_, _)
LevelFrom(xp, level) ==
    IF level = 0 THEN 1
    ELSE IF xp >= level_requirements[level] THEN level
    ELSE LevelFrom(xp, level - 1)

\* a level reached only above its threshold
RECURSIVE LevelAbove(_, _)
LevelAbove(xp, level) ==
    IF level = 0 THEN 1
    ELSE IF xp > level_requirements[level] THEN level
    ELSE LevelAbove(xp, level - 1)

calculate_level_above(xp) == LevelAbove(xp, Len(level_requirements))

calculate_level(xp) == LevelFrom(xp, Len(level_requirements))

\* award_xp that doubles without looking at double_xp_remaining
award_xp_always_doubled(player, base_xp) ==
    LET p2 == [player EXCEPT !.xp = @ + 2 * base_xp]
    IN  <<[p2 EXCEPT !.level = calculate_level(p2.xp)], 2 * base_xp>>

\* award_xp: <<player after, awarded_xp>>
award_xp(player, base_xp) ==
    LET multiplier == IF player.double_xp_remaining > 0 THEN 2 ELSE 1
        awarded == base_xp * multiplier
        p1 == IF multiplier = 2
              THEN [player EXCEPT !.double_xp_remaining = @ - 1]
              ELSE player
        p2 == [p1 EXCEPT !.xp = @ + awarded]
    IN  <<[p2 EXCEPT !.level = calculate_level(p2.xp)], awarded>>

InSeq(x, seq) == \E i \in 1..Len(seq) : seq[i] = x

\* the conditions of achievements_to_check, read before any reward is added
AchievementCondition(player, id) ==
    CASE id = "first_win" -> player.wins >= 1
      [] id = "streak_5" -> player.best_streak >= 5
      [] id = "streak_10" -> player.best_streak >= 10
      [] id = "whale_user" -> player.whale_uses >= 10
      [] id = "high_roller" -> player.shard_tokens >= 10000
      [] id = "prophet" -> player.wins >= 100
      [] id = "daily_warrior" -> player.daily_challenges_completed >= 7

\* check_achievements without the test for achievements already held
RECURSIVE GrantFromAgain(_, _, _)
GrantFromAgain(player, entry, i) ==
    IF i > Len(AchievementIds) THEN player
    ELSE LET id == AchievementIds[i]
         IN  IF AchievementCondition(entry, id)
             THEN GrantFromAgain([player EXCEPT
                                     !.achievements = Append(@, id),
                                     !.shard_tokens = @ + AchievementReward(id)],
                                 entry, i + 1)
             ELSE GrantFromAgain(player, entry, i + 1)

RECURSIVE GrantFrom(_, _, _)
GrantFrom(player, entry, i) ==
    IF i > Len(AchievementIds) THEN player
    ELSE LET id == AchievementIds[i]
         IN  IF AchievementCondition(entry, id) /\ ~InSeq(id, player.achievements)
             THEN GrantFrom([player EXCEPT
                                !.achievements = Append(@, id),
                                !.shard_tokens = @ + AchievementReward(id)],
                            entry, i + 1)
             ELSE GrantFrom(player, entry, i + 1)

\* check_achievements: the player after it
check_achievements(player) == GrantFrom(player, player, 1)

\* lines 1110-1128: <<challenge after, player after>>, c the random choice
generate_daily_challenge(challenge, player, c, tnow) ==
    IF tnow - player.last_challenge_reset > DayLength
    THEN <<[type |-> c.type, progress |-> 0, target |-> c.target,
            reward |-> c.reward, completed |-> FALSE],
           [player EXCEPT !.last_challenge_reset = tnow, !.perfect_streak = 0]>>
    ELSE <<challenge, player>>

\* update_daily_challenge without the test for a completed challenge
update_daily_challenge_again(challenge, player, action, value) ==
    IF challenge.type = "none" \/ challenge.type # action
    THEN <<challenge, player>>
    ELSE LET c1 == [challenge EXCEPT !.progress = @ + value]
         IN  IF c1.progress >= c1.target
             THEN <<[c1 EXCEPT !.completed = TRUE],
                    [player EXCEPT !.shard_tokens = @ + c1.reward,
                                   !.daily_challenges_completed = @ + 1]>>
             ELSE <<c1, player>>

\* update_daily_challenge: <<challenge after, player after>>
update_daily_challenge(challenge, player, action, value) ==
    IF challenge.type = "none" \/ challenge.completed \/ challenge.type # action
    THEN <<challenge, player>>
    ELSE LET c1 == [challenge EXCEPT !.progress = @ + value]
         IN  IF c1.progress >= c1.target
             THEN <<[c1 EXCEPT !.completed = TRUE],
                    [player EXCEPT !.shard_tokens = @ + c1.reward,
                                   !.daily_challenges_completed = @ + 1]>>
             ELSE <<c1, player>>

(***************************************************************************)
(* The reward and the win rule, in the doubles Python computes them in.    *)
(***************************************************************************)
\* the literal 0.1
Tenth == FDecimal(1, 1)

\* the literal 1.1
OnePointOne == FDecimal(11, 1)

\* lines 658 and 669: int(base_reward * whale_multiplier * (1 + streak * 0.1))
TotalReward(whale_multiplier, streak) ==
    CHOOSE r \in {FTrunc(FMul(FFromInt(base_reward * whale_multiplier),
                              streak_multiplier)) :
                    streak_multiplier \in
                        {FAdd(FFromInt(1), bonus) :
                            bonus \in {FMul(FFromInt(streak), Tenth)}}} : TRUE

\* the double a quote of c cents is parsed to
PriceValue(c) == FDecimal(c, 2)

\* line 638 on doubles: ((final - start) / start) * 100, one rounding per
\* operation
PctOf(start, final) ==
    CHOOSE r \in {FMul(quotient, FFromInt(100)) :
                    quotient \in {FDiv(difference, start) :
                                    difference \in {FSub(final, start)}}} : TRUE

\* line 638: ((final_price - start_price) / start_price) * 100
PriceChangePct(start_price, final_price) ==
    CHOOSE r \in {PctOf(s, f) : s \in {PriceValue(start_price)},
                                f \in {PriceValue(final_price)}} : TRUE

\* line 641
required_change(fud_active) == IF fud_active THEN OnePointOne ELSE FFromInt(1)

\* the win rule with strict comparisons
WonStrict(direction, pct, fud_active) ==
    IF direction = "up"
    THEN FCmp(pct, required_change(fud_active)) > 0
    ELSE FCmp(pct, FNeg(required_change(fud_active))) < 0

\* lines 645-648
Won(direction, pct, fud_active) ==
    IF direction = "up"
    THEN FCmp(pct, required_change(fud_active)) >= 0
    ELSE FCmp(pct, FNeg(required_change(fud_active))) <= 0

(***************************************************************************)
(* State.  The variable doubles holds the values of the two binary64       *)
(* expressions of check_prediction_result for every input the model can     *)
(* feed them; it is computed at construction and never changes, so that     *)
(* each resolution reads the value instead of redoing the arithmetic.       *)
(***************************************************************************)
VARIABLES
    now,                 \* time.time(), in seconds
    active_predictions,  \* the dict's values in insertion order
    player_data,
    daily_challenges,
    group_data,
    price_cache,
    last_api_call,
    jobs,                \* the job-queue callbacks, each with the position of its prediction
    predicting,          \* per handler slot, the predict_command in flight
    checking,            \* per user, the check_command in flight
    clicks,              \* the callback queries received, with the answers
    doubles,             \* the binary64 results of lines 638 and 669
    start_log,           \* history: the /start commands answered, with the OG message or without
    api_key,             \* whether COINGECKO_API_KEY is set in the environment
    job_queue,           \* whether the application has a JobQueue
    predict_refused      \* per user, what the last refused /predict was told


\* the rounds played by the user that never won five in a row
GrinderRounds == 16

\* the streaks doubles covers: no record drawn counts more wins
TableStreaks == 0..(4 * GrinderRounds + 15)

\* the value of doubles throughout
Doubles ==
    CHOOSE d \in
        {[pct |-> [q \in QuotedPrices \X QuotedPrices |->
                      PctOf(value[q[1]], value[q[2]])],
          reward |-> [q \in {1, 3} \X TableStreaks |->
                         TotalReward(q[1], q[2])]] :
            value \in {[c \in QuotedPrices |-> PriceValue(c)]}} : TRUE

\* line 669, read from doubles
\* the reward with the streak bonus of the streak after the increment
total_reward_next_streak(whale_multiplier, streak) ==
    doubles.reward[<<whale_multiplier, streak + 1>>]

total_reward(whale_multiplier, streak) ==
    doubles.reward[<<whale_multiplier, streak>>]

\* line 638, read from doubles
price_change_pct(start_price, final_price) ==
    doubles.pct[<<start_price, final_price>>]

(***************************************************************************)
(* The program state as one record w: preds (active_predictions, in dict   *)
(* order), players (player_data), chals (daily_challenges), groups         *)
(* (group_data), cache (price_cache), last (last_api_call).  A user with   *)
(* no player_data entry is held as DefaultPlayer, the record               *)
(* get_player_data would create on the first access; a user with no        *)
(* daily_challenges entry as NoChallenge.                                  *)
(***************************************************************************)
\* get_crypto_price's None
NoPrice == -1

\* a symbol with no price_cache entry
NoCache == [price |-> NoPrice, timestamp |-> 0]

\* `not price`
Falsy(price) == price = NoPrice \/ price = 0

\* what one requests.get can end in
ApiResponses ==
    {[kind |-> "ok", price |-> p] : p \in Prices}
    \cup {[kind |-> k, price |-> 0] :
             k \in {"rate_limited", "request_error", "missing", "malformed"}}

\* the results of the rest of the loop, after one more request
OneMore(results) == {[r EXCEPT !.fetches = @ + 1] : r \in results}

\* a retry loop that falls back on the cache only while the entry is less
\* than a minute old
RECURSIVE AttemptsFreshOnly(_, _, _, _, _)
AttemptsFreshOnly(symbol, cache, last, tnow, k) ==
    IF k >= retries
    THEN IF cache[symbol].price # NoPrice /\ tnow - cache[symbol].timestamp < 60
         THEN {[kind |-> "ret", price |-> cache[symbol].price, attempt |-> k,
                cache |-> cache, last |-> last, log |-> "expired_cache", fetches |-> 0]}
         ELSE {[kind |-> "ret", price |-> NoPrice, attempt |-> k,
                cache |-> cache, last |-> last, log |-> "failed", fetches |-> 0]}
    ELSE UNION {
           CASE resp.kind = "ok" ->
                  {[kind |-> "ret", price |-> resp.price, attempt |-> k,
                    cache |-> [cache EXCEPT ![symbol] =
                                 [price |-> resp.price, timestamp |-> tnow]],
                    last |-> tnow, log |-> "fetched", fetches |-> 1]}
             [] resp.kind = "rate_limited" ->
                  {[kind |-> "sleep", price |-> NoPrice, attempt |-> k + 1,
                    cache |-> cache, last |-> tnow, log |-> "waiting",
                    fetches |-> 1]}
             [] resp.kind = "missing" ->
                  OneMore(AttemptsFreshOnly(symbol, cache, tnow, tnow, k + 1))
             [] OTHER ->
                  IF k < retries - 1
                  THEN {[kind |-> "sleep", price |-> NoPrice, attempt |-> k + 1,
                         cache |-> cache, last |-> tnow, log |-> "waiting",
                         fetches |-> 1]}
                  ELSE OneMore(AttemptsFreshOnly(symbol, cache, tnow, tnow, k + 1))
           : resp \in ApiResponses }

(* The retry loop of get_crypto_price from attempt k on, run until it      *)
(* returns or suspends in asyncio.sleep.  Each result is                   *)
(* [kind, price, attempt, cache, last, log, fetches]: kind "ret" with the  *)
(* returned price, or kind "sleep" with the attempt the loop resumes at;   *)
(* log is the last line logged and fetches the number of requests made    *)
(* (the lines "Fetching price for ..." of line 181).                        *)
RECURSIVE Attempts(_, _, _, _, _)
Attempts(symbol, cache, last, tnow, k) ==
    IF k >= retries
    THEN {[kind |-> "ret", price |-> cache[symbol].price, attempt |-> k,
           cache |-> cache, last |-> last,
           log |-> IF cache[symbol].price # NoPrice
                   THEN "expired_cache" ELSE "failed",
           fetches |-> 0]}
    ELSE UNION {
           CASE resp.kind = "ok" ->
                  {[kind |-> "ret", price |-> resp.price, attempt |-> k,
                    cache |-> [cache EXCEPT ![symbol] =
                                 [price |-> resp.price, timestamp |-> tnow]],
                    last |-> tnow, log |-> "fetched", fetches |-> 1]}
             [] resp.kind = "rate_limited" ->
                  {[kind |-> "sleep", price |-> NoPrice, attempt |-> k + 1,
                    cache |-> cache, last |-> tnow, log |-> "waiting",
                    fetches |-> 1]}
             [] resp.kind = "missing" ->
                  OneMore(Attempts(symbol, cache, tnow, tnow, k + 1))
             [] OTHER ->
                  IF k < retries - 1
                  THEN {[kind |-> "sleep", price |-> NoPrice, attempt |-> k + 1,
                         cache |-> cache, last |-> tnow, log |-> "waiting",
                         fetches |-> 1]}
                  ELSE OneMore(Attempts(symbol, cache, tnow, tnow, k + 1))
           : resp \in ApiResponses }

\* get_crypto_price without the look at the cache
GetPriceStartUncached(symbol, cache, last, tnow) ==
    IF tnow - last < min_api_interval
    THEN {[kind |-> "sleep", price |-> NoPrice, attempt |-> 0,
           cache |-> cache, last |-> last, log |-> "waiting", fetches |-> 0]}
    ELSE Attempts(symbol, cache, last, tnow, 0)

\* get_crypto_price with a loop of one more attempt
GetPriceStartOneMore(symbol, cache, last, tnow) ==
    IF cache[symbol].price # NoPrice
       /\ tnow - cache[symbol].timestamp < cache_duration
    THEN {[kind |-> "ret", price |-> cache[symbol].price, attempt |-> 0,
           cache |-> cache, last |-> last, log |-> "cached", fetches |-> 0]}
    ELSE Attempts(symbol, cache, last, tnow, -1)

\* get_crypto_price from its entry to its return or first suspension
GetPriceStart(symbol, cache, last, tnow) ==
    IF cache[symbol].price # NoPrice
       /\ tnow - cache[symbol].timestamp < cache_duration
    THEN {[kind |-> "ret", price |-> cache[symbol].price, attempt |-> 0,
           cache |-> cache, last |-> last, log |-> "cached", fetches |-> 0]}
    ELSE IF tnow - last < min_api_interval
    THEN {[kind |-> "sleep", price |-> NoPrice, attempt |-> 0,
           cache |-> cache, last |-> last, log |-> "waiting", fetches |-> 0]}
    ELSE Attempts(symbol, cache, last, tnow, 0)

\* the prediction predict_command stores
NewPrediction(user_id, chat_id, crypto, price, tnow, fud_active) ==
    [id |-> <<user_id, tnow>>, user_id |-> user_id, chat_id |-> chat_id,
     crypto |-> crypto, start_price |-> price, timestamp |-> tnow,
     fud_active |-> fud_active, locked |-> FALSE, completed |-> FALSE,
     direction |-> "none", whale_mode |-> FALSE, result |-> "none",
     final_price |-> 0, price_change_pct |-> FZero, tokens_earned |-> 0,
     xp_earned |-> 0, previous_streak |-> 0, streak_protected |-> FALSE]

\* lines 660-684 and 722-730: the player, challenge and prediction after a win
WinOutcome(pred, player, challenge, final_price, pct) ==
    LET whale_multiplier == IF pred.whale_mode THEN 3 ELSE 1
        reward == total_reward(whale_multiplier, player.streak)
        streak == player.streak + 1
        p1 == [player EXCEPT
                  !.wins = @ + 1, !.streak = streak,
                  !.perfect_streak = @ + 1,
                  !.best_streak = IF streak > @ THEN streak ELSE @,
                  !.shard_tokens = @ + reward]
        Challenges(xp) ==
            LET d1 == update_daily_challenge(challenge, xp[1], "predictions", 1)
                d2 == update_daily_challenge(d1[1], d1[2], "win_streak", streak)
                d3 == IF whale_multiplier > 1
                      THEN LET d == update_daily_challenge(d2[1], d2[2],
                                                           "whale_mode", 1)
                           IN  <<d[1], [d[2] EXCEPT !.whale_uses = @ + 1]>>
                      ELSE d2
            IN  [player |-> check_achievements(d3[2]),
                 challenge |-> d3[1],
                 pred |-> [pred EXCEPT
                              !.result = "won", !.final_price = final_price,
                              !.price_change_pct = pct, !.tokens_earned = reward,
                              !.xp_earned = xp[2]]]
    IN  CHOOSE out \in
            {Challenges(xp) : xp \in {award_xp(p1, 50 + streak * 5)}} : TRUE

\* a loss that keeps the streak whether or not a shield is held
LossOutcomeKeepStreak(pred, player, challenge, final_price, pct) ==
    LET whale_multiplier == IF pred.whale_mode THEN 3 ELSE 1
        protected == player.streak_shields > 0
        p1 == IF protected
              THEN [player EXCEPT !.streak_shields = @ - 1]
              ELSE player
        d1 == update_daily_challenge(challenge, p1, "predictions", 1)
        p2 == IF whale_multiplier > 1
              THEN [d1[2] EXCEPT !.whale_uses = @ + 1]
              ELSE d1[2]
        xp == award_xp(p2, ParticipationXp)
    IN  [player |-> xp[1],
         challenge |-> d1[1],
         pred |-> [pred EXCEPT
                      !.result = "lost", !.final_price = final_price,
                      !.price_change_pct = pct,
                      !.previous_streak = player.streak,
                      !.streak_protected = protected,
                      !.xp_earned = xp[2]]]

\* lines 738-786: the player, challenge and prediction after a loss
LossOutcome(pred, player, challenge, final_price, pct) ==
    LET whale_multiplier == IF pred.whale_mode THEN 3 ELSE 1
        protected == player.streak_shields > 0
        p1 == IF protected
              THEN [player EXCEPT !.streak_shields = @ - 1]
              ELSE [player EXCEPT !.streak = 0, !.perfect_streak = 0]
        d1 == update_daily_challenge(challenge, p1, "predictions", 1)
        p2 == IF whale_multiplier > 1
              THEN [d1[2] EXCEPT !.whale_uses = @ + 1]
              ELSE d1[2]
        xp == award_xp(p2, ParticipationXp)
    IN  [player |-> xp[1],
         challenge |-> d1[1],
         pred |-> [pred EXCEPT
                      !.result = "lost", !.final_price = final_price,
                      !.price_change_pct = pct,
                      !.previous_streak = player.streak,
                      !.streak_protected = protected,
                      !.xp_earned = xp[2]]]

\* a resolution that works on a copy of the player record taken before the
\* price lookup, a new player's, and writes the copy back
ApplyOutcomeStale(w, i, final_price, tnow) ==
    LET pred == w.preds[i]
        user_id == pred.user_id
        pct == price_change_pct(pred.start_price, final_price)
        won == Won(pred.direction, pct, pred.fud_active)
        p0 == [DefaultPlayer EXCEPT
                  !.last_play = tnow, !.total_predictions = @ + 1]
        out == IF won
               THEN WinOutcome(pred, p0, w.chals[user_id], final_price, pct)
               ELSE LossOutcome(pred, p0, w.chals[user_id], final_price, pct)
        Store(o) ==
            [w EXCEPT
                !.preds[i] = o.pred,
                !.players[user_id] = o.player,
                !.chals[user_id] = o.challenge,
                !.groups[pred.chat_id].leaderboard[user_id] =
                    IF won THEN o.player.best_streak ELSE @]
    IN  CHOOSE w2 \in {Store(o) : o \in {out}} : TRUE

\* a resolution that writes the leaderboard on a loss as well
ApplyOutcomeBoardAlways(w, i, final_price, tnow) ==
    LET pred == w.preds[i]
        user_id == pred.user_id
        pct == price_change_pct(pred.start_price, final_price)
        won == Won(pred.direction, pct, pred.fud_active)
        p0 == [w.players[user_id] EXCEPT
                  !.last_play = tnow, !.total_predictions = @ + 1]
        out == IF won
               THEN WinOutcome(pred, p0, w.chals[user_id], final_price, pct)
               ELSE LossOutcome(pred, p0, w.chals[user_id], final_price, pct)
        Store(o) ==
            [w EXCEPT
                !.preds[i] = o.pred,
                !.players[user_id] = o.player,
                !.chals[user_id] = o.challenge,
                !.groups[pred.chat_id].leaderboard[user_id] = o.player.best_streak]
    IN  CHOOSE w2 \in {Store(o) : o \in {out}} : TRUE

\* lines 636-786: check_prediction_result once it holds a final price
ApplyOutcome(w, i, final_price, tnow) ==
    LET pred == w.preds[i]
        user_id == pred.user_id
        pct == price_change_pct(pred.start_price, final_price)
        won == Won(pred.direction, pct, pred.fud_active)
        p0 == [w.players[user_id] EXCEPT
                  !.last_play = tnow, !.total_predictions = @ + 1]
        out == IF won
               THEN WinOutcome(pred, p0, w.chals[user_id], final_price, pct)
               ELSE LossOutcome(pred, p0, w.chals[user_id], final_price, pct)
        Store(o) ==
            [w EXCEPT
                !.preds[i] = o.pred,
                !.players[user_id] = o.player,
                !.chals[user_id] = o.challenge,
                !.groups[pred.chat_id].leaderboard[user_id] =
                    IF won THEN o.player.best_streak ELSE @]
    IN  CHOOSE w2 \in {Store(o) : o \in {out}} : TRUE

\* the no-price path counting the prediction as played
ResolveAfterPriceCounted(w, i, price, tnow) ==
    IF Falsy(price)
    THEN [w |-> [w EXCEPT !.players[w.preds[i].user_id].total_predictions = @ + 1],
          pc |-> "error_edit", attempt |-> 0]
    ELSE [w |-> ApplyOutcome(w, i, price, tnow), pc |-> "send", attempt |-> 0]

\* a resolution that takes the no-price path when the cache entry the price
\* came from is older than cache_duration
ResolveAfterPriceFreshOnly(w, i, price, tnow) ==
    IF Falsy(price)
       \/ tnow - w.cache[w.preds[i].crypto].timestamp >= cache_duration
    THEN [w |-> w, pc |-> "error_edit", attempt |-> 0]
    ELSE [w |-> ApplyOutcome(w, i, price, tnow), pc |-> "send", attempt |-> 0]

\* lines 617-634: what check_prediction_result does with the looked-up price
ResolveAfterPrice(w, i, price, tnow) ==
    IF Falsy(price)
    THEN [w |-> w, pc |-> "error_edit", attempt |-> 0]
    ELSE [w |-> ApplyOutcome(w, i, price, tnow), pc |-> "send", attempt |-> 0]

ResolveContinue(w, i, r, tnow) ==
    LET w2 == [w EXCEPT !.cache = r.cache, !.last = r.last]
    IN  IF r.kind = "sleep"
        THEN [w |-> w2, pc |-> "price", attempt |-> r.attempt]
        ELSE ResolveAfterPrice(w2, i, r.price, tnow)

(* check_prediction_result for the prediction at position i, from its entry *)
(* (lines 591-618) to its first suspension: in the edit of the expiry       *)
(* message ("expire_edit"), inside get_crypto_price ("price"), in the edit  *)
(* of the error message ("error_edit") or in the send of the result         *)
(* ("send").  The prediction is in active_predictions: entries are never    *)
(* removed.                                                                 *)
ResolveStart(w, i, tnow) ==
    LET w1 == [w EXCEPT !.preds[i].completed = TRUE]
    IN  IF w.preds[i].direction = "none"
        THEN {[w |-> w1, pc |-> "expire_edit", attempt |-> 0]}
        ELSE {ResolveContinue(w1, i, r, tnow) :
                r \in GetPriceStart(w1.preds[i].crypto, w1.cache, w1.last, tnow)}

\* check_prediction_result resumed inside get_crypto_price
ResolveResume(w, i, attempt, tnow) ==
    {ResolveContinue(w, i, r, tnow) :
        r \in Attempts(w.preds[i].crypto, w.cache, w.last, tnow, attempt)}

\* every message edit followed by the result 'error'
ResolveFinishError(w, i, pc) ==
    [w EXCEPT !.preds[i].result = "error"]

\* lines 613-615 and 631-634: the result stored after the message edit
ResolveFinish(w, i, pc) ==
    [w EXCEPT !.preds[i].result =
        IF pc = "expire_edit" THEN "expired" ELSE "error"]

\* a direction click that does not look at `locked`
prediction_callback_relock(w, user_id, i, direction) ==
    IF w.preds[i].user_id # user_id THEN <<w, "not_owner">>
    ELSE <<[w EXCEPT !.preds[i].locked = TRUE,
                     !.preds[i].direction = direction], "locked">>

\* lines 488-506: a direction click; <<state after, what the user is told>>
prediction_callback(w, user_id, i, direction) ==
    IF w.preds[i].user_id # user_id THEN <<w, "not_owner">>
    ELSE IF w.preds[i].locked THEN <<w, "already_locked">>
    ELSE <<[w EXCEPT !.preds[i].locked = TRUE,
                     !.preds[i].direction = direction], "locked">>

\* a whale click that does not look at `locked`
use_whale_powerup_relock(w, user_id, i) ==
    IF w.players[user_id].whale_powerups <= 0 THEN <<w, "no_powerups">>
    ELSE IF w.preds[i].user_id # user_id THEN <<w, "not_owner">>
    ELSE <<[w EXCEPT !.players[user_id].whale_powerups = @ - 1,
                     !.preds[i].whale_mode = TRUE], "whale_mode">>

\* a whale click that refuses only a negative inventory
use_whale_powerup_off_by_one(w, user_id, i) ==
    IF w.players[user_id].whale_powerups < 0 THEN <<w, "no_powerups">>
    ELSE IF w.preds[i].user_id # user_id THEN <<w, "not_owner">>
    ELSE IF w.preds[i].locked THEN <<w, "already_locked">>
    ELSE <<[w EXCEPT !.players[user_id].whale_powerups = @ - 1,
                     !.preds[i].whale_mode = TRUE], "whale_mode">>

\* a whale click that does not look at the inventory
use_whale_powerup_unchecked(w, user_id, i) ==
    IF w.preds[i].user_id # user_id THEN <<w, "not_owner">>
    ELSE IF w.preds[i].locked THEN <<w, "already_locked">>
    ELSE <<[w EXCEPT !.players[user_id].whale_powerups = @ - 1,
                     !.preds[i].whale_mode = TRUE], "whale_mode">>

\* a whale click that does not look at the owner
use_whale_powerup_anyone(w, user_id, i) ==
    IF w.players[user_id].whale_powerups <= 0 THEN <<w, "no_powerups">>
    ELSE IF w.preds[i].locked THEN <<w, "already_locked">>
    ELSE <<[w EXCEPT !.players[user_id].whale_powerups = @ - 1,
                     !.preds[i].whale_mode = TRUE], "whale_mode">>

\* a whale click that leaves the inventory as it is
use_whale_powerup_free(w, user_id, i) ==
    IF w.players[user_id].whale_powerups <= 0 THEN <<w, "no_powerups">>
    ELSE IF w.preds[i].user_id # user_id THEN <<w, "not_owner">>
    ELSE IF w.preds[i].locked THEN <<w, "already_locked">>
    ELSE <<[w EXCEPT !.preds[i].whale_mode = TRUE], "whale_mode">>

\* lines 535-557: a whale-mode click; <<state after, what the user is told>>
use_whale_powerup(w, user_id, i) ==
    IF w.players[user_id].whale_powerups <= 0 THEN <<w, "no_powerups">>
    ELSE IF w.preds[i].user_id # user_id THEN <<w, "not_owner">>
    ELSE IF w.preds[i].locked THEN <<w, "already_locked">>
    ELSE <<[w EXCEPT !.players[user_id].whale_powerups = @ - 1,
                     !.preds[i].whale_mode = TRUE], "whale_mode">>

\* predict_command without the test of lines 361-370
HasActivePredictionUntested(preds, user_id, tnow) == FALSE

\* lines 361-370: the caller has a prediction that is not completed and
\* less than 60 s old
HasActivePrediction(preds, user_id, tnow) ==
    \E i \in 1..Len(preds) :
        /\ preds[i].user_id = user_id
        /\ ~preds[i].completed
        /\ PredictionWindow - (tnow - preds[i].timestamp) > 0

\* a /check that does not look at the age of the prediction
CheckMatchesAnyAge(pred, user_id, tnow) ==
    /\ pred.user_id = user_id
    /\ ~pred.completed
    /\ pred.direction # "none"

\* lines 1009-1012: the predictions /check resolves
CheckMatches(pred, user_id, tnow) ==
    /\ pred.user_id = user_id
    /\ ~pred.completed
    /\ pred.direction # "none"
    /\ tnow - pred.timestamp >= PredictionWindow

\* the first position after pos that /check resolves, 0 if there is none
NextMatch(preds, user_id, pos, tnow) ==
    LET hits == {j \in (pos + 1)..Len(preds) : CheckMatches(preds[j], user_id, tnow)}
    IN  IF hits = {} THEN 0 ELSE CHOOSE j \in hits : \A k \in hits : j <= k

IdleCheck == [pc |-> "idle", pos |-> 0, attempt |-> 0, size |-> 0]

(* lines 1008-1033: the loop of check_command from the item after pos to   *)
(* the next suspension.  The loop iterates active_predictions itself, so    *)
(* it ends in a RuntimeError when the dict has grown since the loop began.  *)
CheckLoop(w, user_id, pos, size, tnow) ==
    IF Len(w.preds) # size THEN {[w |-> w, chk |-> IdleCheck]}
    ELSE LET j == NextMatch(w.preds, user_id, pos, tnow)
         IN  IF j = 0 THEN {[w |-> w, chk |-> IdleCheck]}
             ELSE {[w |-> o.w,
                    chk |-> [pc |-> o.pc, pos |-> j, attempt |-> o.attempt,
                             size |-> size]] : o \in ResolveStart(w, j, tnow)}

vars ==
    <<now, active_predictions, player_data, daily_challenges, group_data,
      price_cache, last_api_call, jobs, predicting, checking, clicks, doubles, start_log, api_key, job_queue, predict_refused>>

World ==
    [preds |-> active_predictions, players |-> player_data,
     chals |-> daily_challenges, groups |-> group_data,
     cache |-> price_cache, last |-> last_api_call]

SetWorld(w) ==
    /\ active_predictions' = w.preds
    /\ player_data' = w.players
    /\ daily_challenges' = w.chals
    /\ group_data' = w.groups
    /\ price_cache' = w.cache
    /\ last_api_call' = w.last

\* a leaderboard without the user
NoEntry == -1

DefaultGroup ==
    [leaderboard |-> [u \in Users |-> NoEntry], og_count |-> 0,
     total_players |-> 0, group_score |-> 0]

\* the predict_command in flight.  run() builds the application without
\* concurrent_updates (line 1280), so an update is handled when the handler
\* of the one before it has returned: one slot
Handlers == {1}

\* a slot with no predict_command in flight; reply is what the last one
\* told the user, price and price_log what its get_crypto_price returned
\* and logged, fetches the requests it made; pred is the position of the
\* prediction a command suspended in line 444 has stored
IdlePredict ==
    [pc |-> "idle", user |-> 0, crypto |-> "", fud |-> FALSE, attempt |-> 0,
     reply |-> "none", price |-> NoPrice, price_log |-> "none", fetches |-> 0,
     pred |-> 0]

\* the requests made so far by the get_crypto_price of slot h, r included
FetchesWith(h, r) ==
    IF predicting[h].pc = "price" THEN predicting[h].fetches + r.fetches
    ELSE r.fetches

\* lines 457-462: the callback run_once schedules at tnow for the prediction
\* at position i, due 60 s later
NewJob(i, tnow) ==
    [pred |-> i, pc |-> "scheduled", attempt |-> 0,
     due |-> tnow + PredictionWindow]

\* the position of the prediction with this id, 0 if there is none
PositionOf(preds, id) ==
    IF \E i \in 1..Len(preds) : preds[i].id = id
    THEN CHOOSE i \in 1..Len(preds) : preds[i].id = id
    ELSE 0

\* line 402: self.active_predictions[prediction_id] = {...}; an id already
\* stored keeps its position in the dict and gets the new value
StorePrediction(preds, pred) ==
    IF PositionOf(preds, pred.id) = 0
    THEN Append(preds, pred)
    ELSE [preds EXCEPT ![PositionOf(preds, pred.id)] = pred]

\* lines 26-42: the state after construction.  COINGECKO_API_KEY is set or
\* not; the application has a JobQueue, because run() returns before it
\* registers a handler when it has none (lines 1285-1288)
Init ==
    /\ now = Epoch
    /\ active_predictions = <<>>
    /\ player_data = [u \in Users |-> DefaultPlayer]
    /\ daily_challenges = [u \in Users |-> NoChallenge]
    /\ group_data = [c \in Chats |-> DefaultGroup]
    /\ price_cache = [sym \in CryptoSymbols |-> NoCache]
    /\ last_api_call = 0
    /\ jobs = <<>>
    /\ predicting = [h \in Handlers |-> IdlePredict]
    /\ checking = [u \in Users |-> IdleCheck]
    /\ clicks = <<>>
    /\ doubles = Doubles
    /\ api_key \in BOOLEAN
    /\ job_queue = TRUE
    /\ predict_refused = [u \in Users |-> "none"]
    /\ start_log = {}

(***************************************************************************)
(* Actions.                                                                *)
(***************************************************************************)
Tick ==
    /\ now < Epoch + MaxElapsed
    /\ now' = now + TickStep
    /\ UNCHANGED <<active_predictions, player_data, daily_challenges,
                   group_data, price_cache, last_api_call, jobs, predicting,
                   checking, clicks, doubles, start_log, api_key, job_queue, predict_refused>>

\* the slot of a predict_command suspended in get_crypto_price
InGetPrice(h, u, crypto, fud, r) ==
    [pc |-> "price", user |-> u, crypto |-> crypto, fud |-> fud,
     attempt |-> r.attempt, reply |-> "none", price |-> NoPrice,
     price_log |-> r.log, fetches |-> FetchesWith(h, r), pred |-> 0]

\* the slot of a predict_command that has returned after the price r.price
Replied(h, r, reply) ==
    [IdlePredict EXCEPT !.reply = reply, !.price = r.price,
                        !.price_log = r.log, !.fetches = FetchesWith(h, r)]

\* lines 398-444: the prediction is stored and predict_command suspends in
\* the reply_text that sends the message with the buttons
StoreAndReply(h, u, crypto, fud, r) ==
    LET pred == NewPrediction(u, Chat, crypto, r.price, now, fud)
        stored == StorePrediction(active_predictions, pred)
    IN  /\ predicting' = [predicting EXCEPT ![h] =
              [Replied(h, r, "prediction") EXCEPT
                  !.pc = "reply", !.pred = PositionOf(stored, pred.id)]]
        /\ active_predictions' = stored

\* predict_command without the test of the price
PredictContinueAnyPrice(h, u, crypto, fud, r) ==
    /\ price_cache' = r.cache
    /\ last_api_call' = r.last
    /\ IF r.kind = "sleep"
       THEN /\ predicting' = [predicting EXCEPT ![h] =
                                 InGetPrice(h, u, crypto, fud, r)]
            /\ UNCHANGED active_predictions
       ELSE StoreAndReply(h, u, crypto, fud, r)
    /\ UNCHANGED <<now, player_data, daily_challenges, group_data, jobs,
                   checking, clicks, doubles, start_log, api_key, job_queue, predict_refused>>

(* predict_command of handler slot h once get_crypto_price has returned or  *)
(* suspended, up to its next suspension (lines 390-444): in the sleep of    *)
(* get_crypto_price, in the reply that the oracle is down, after which it   *)
(* returns, or in the reply_text of line 444 with the prediction stored.    *)
PredictContinue(h, u, crypto, fud, r) ==
    /\ price_cache' = r.cache
    /\ last_api_call' = r.last
    /\ IF r.kind = "sleep"
       THEN /\ predicting' = [predicting EXCEPT ![h] =
                                 InGetPrice(h, u, crypto, fud, r)]
            /\ UNCHANGED active_predictions
       ELSE IF Falsy(r.price)
       THEN /\ predicting' = [predicting EXCEPT ![h] =
                                 Replied(h, r, "oracle_down")]
            /\ UNCHANGED active_predictions
       ELSE StoreAndReply(h, u, crypto, fud, r)
    /\ UNCHANGED <<now, player_data, daily_challenges, group_data, jobs,
                   checking, clicks, doubles, start_log, api_key, job_queue, predict_refused>>

\* line 374: 45 s on the free tier, 30 s with an API key
cooldown == IF ~api_key THEN CooldownFree ELSE CooldownPro

\* lines 358-390: /predict of user u, run by handler slot h, passes the
\* active-prediction and cooldown checks
PredictCommand(u, h) ==
    /\ predicting[h].pc = "idle"
    /\ ~HasActivePrediction(active_predictions, u, now)
    /\ ~(now - player_data[u].last_play < cooldown)
    /\ \E fud \in BOOLEAN, crypto \in CryptoSymbols :
         \E r \in GetPriceStart(crypto, price_cache, last_api_call, now) :
            PredictContinue(h, u, crypto, fud, r)

\* lines 358-379: /predict of user u is refused, because of a prediction
\* that is not completed and less than 60 s old or, without one, because of
\* the cooldown; nothing is fetched or stored
PredictRefused(u, h) ==
    /\ predicting[h].pc = "idle"
    /\ \/ HasActivePrediction(active_predictions, u, now)
       \/ now - player_data[u].last_play < cooldown
    /\ predict_refused' = [predict_refused EXCEPT ![u] =
          IF HasActivePrediction(active_predictions, u, now)
          THEN "active" ELSE "cooldown"]
    /\ UNCHANGED <<now, active_predictions, player_data, daily_challenges,
                   group_data, price_cache, last_api_call, jobs, predicting,
                   checking, clicks, doubles, start_log, api_key, job_queue>>

\* predict_command resumed inside get_crypto_price
PredictResume(h) ==
    /\ predicting[h].pc = "price"
    /\ \E r \in Attempts(predicting[h].crypto, price_cache, last_api_call, now,
                         predicting[h].attempt) :
          PredictContinue(h, predicting[h].user, predicting[h].crypto,
                          predicting[h].fud, r)

\* lines 446-463: predict_command resumed after the reply_text of line 444.
\* With a JobQueue the callback is scheduled 60 s from now; without one the
\* user is told so and nothing is scheduled.
PredictSchedule(h) ==
    /\ predicting[h].pc = "reply"
    /\ IF job_queue
       THEN /\ jobs' = Append(jobs, NewJob(predicting[h].pred, now))
            /\ predicting' = [predicting EXCEPT ![h].pc = "idle", ![h].pred = 0]
       ELSE /\ predicting' = [predicting EXCEPT ![h].pc = "idle", ![h].pred = 0,
                                               ![h].reply = "no_job_queue"]
            /\ UNCHANGED jobs
    /\ UNCHANGED <<now, active_predictions, player_data, daily_challenges,
                   group_data, price_cache, last_api_call, checking, clicks,
                   doubles, start_log, api_key, job_queue, predict_refused>>

\* lines 446-470: a call inside the try raises, run_once (line 457) or,
\* without a JobQueue, the reply_text of line 450; the exception is caught,
\* nothing is scheduled and the user is told of a timer issue
PredictScheduleFails(h) ==
    /\ predicting[h].pc = "reply"
    /\ predicting' = [predicting EXCEPT ![h].pc = "idle", ![h].pred = 0,
                                        ![h].reply = "timer_issue"]
    /\ UNCHANGED <<now, active_predictions, player_data, daily_challenges,
                   group_data, price_cache, last_api_call, jobs, checking,
                   clicks, doubles, start_log, api_key, job_queue, predict_refused>>

\* line 444 raises (the Telegram request failed): predict_command ends with
\* the prediction stored and run_once never reached; error_handler (lines
\* 1040-1047) logs the exception
PredictReplyFails(h) ==
    /\ predicting[h].pc = "reply"
    /\ predicting' = [predicting EXCEPT ![h].pc = "idle", ![h].pred = 0]
    /\ UNCHANGED <<now, active_predictions, player_data, daily_challenges,
                   group_data, price_cache, last_api_call, jobs, checking,
                   clicks, doubles, start_log, api_key, job_queue, predict_refused>>

\* job j has run check_prediction_result up to its next suspension
JobStep(j, o) ==
    /\ SetWorld(o.w)
    /\ jobs' = [jobs EXCEPT ![j] =
          [pred |-> jobs[j].pred,
           pc |-> IF o.pc = "send" THEN "done" ELSE o.pc,
           attempt |-> o.attempt, due |-> jobs[j].due]]
    /\ UNCHANGED <<now, predicting, checking, clicks, doubles, start_log, api_key, job_queue, predict_refused>>

\* the job queue runs check_prediction_result, 60 s after it was scheduled
\* or later
JobFire(j) ==
    /\ jobs[j].pc = "scheduled"
    /\ now >= jobs[j].due
    /\ \E o \in ResolveStart(World, jobs[j].pred, now) : JobStep(j, o)

JobResume(j) ==
    /\ jobs[j].pc = "price"
    /\ \E o \in ResolveResume(World, jobs[j].pred, jobs[j].attempt, now) :
          JobStep(j, o)

JobFinish(j) ==
    /\ jobs[j].pc \in {"expire_edit", "error_edit"}
    /\ JobStep(j, [w |-> ResolveFinish(World, jobs[j].pred, jobs[j].pc),
                   pc |-> "done", attempt |-> 0])

CheckStep(u, o) ==
    /\ SetWorld(o.w)
    /\ checking' = [checking EXCEPT ![u] = o.chk]
    /\ UNCHANGED <<now, jobs, predicting, clicks, doubles, start_log, api_key, job_queue, predict_refused>>

\* /check with at least one prediction to resolve
CheckCommand(u) ==
    /\ checking[u].pc = "idle"
    /\ NextMatch(active_predictions, u, 0, now) # 0
    /\ \E o \in CheckLoop(World, u, 0, Len(active_predictions), now) :
          CheckStep(u, o)

\* check_command resumed inside get_crypto_price
CheckResume(u) ==
    /\ checking[u].pc = "price"
    /\ \E o \in ResolveResume(World, checking[u].pos, checking[u].attempt, now) :
          CheckStep(u, [w |-> o.w,
                        chk |-> [checking[u] EXCEPT !.pc = o.pc,
                                                    !.attempt = o.attempt]])

\* check_command resumed after check_prediction_result's last message
CheckNext(u) ==
    /\ checking[u].pc \in {"error_edit", "send"}
    /\ LET w == IF checking[u].pc = "error_edit"
                THEN ResolveFinish(World, checking[u].pos, "error_edit")
                ELSE World
       IN  \E o \in CheckLoop(w, u, checking[u].pos, checking[u].size, now) :
              CheckStep(u, o)

\* the button presses drawn: any user on any of the three buttons
ClickInputs == Users \X {"up", "down", "whale"}

\* a button of the message of prediction i is pressed; the handler suspends
\* in query.answer() before it reads anything
ClickReceive(u, i, data) ==
    /\ Len(clicks) < MaxClicks
    /\ clicks' = Append(clicks,
                        [user |-> u, pred |-> i, data |-> data, resp |-> "pending"])
    /\ UNCHANGED <<now, active_predictions, player_data, daily_challenges,
                   group_data, price_cache, last_api_call, jobs, predicting,
                   checking, doubles, start_log, api_key, job_queue, predict_refused>>

\* prediction_callback after query.answer(), lines 477-531
ClickHandle(c) ==
    /\ clicks[c].resp = "pending"
    /\ LET out == IF clicks[c].data = "whale"
                  THEN use_whale_powerup(World, clicks[c].user, clicks[c].pred)
                  ELSE prediction_callback(World, clicks[c].user, clicks[c].pred,
                                           clicks[c].data)
       IN  /\ SetWorld(out[1])
           /\ clicks' = [clicks EXCEPT ![c].resp = out[2]]
    /\ UNCHANGED <<now, jobs, predicting, checking, doubles, start_log, api_key, job_queue, predict_refused>>

\* lines 1110-1128, reached from /daily: a new challenge once a day
DailyCommand(u) ==
    /\ now - player_data[u].last_challenge_reset > DayLength
    /\ \E c \in challenge_types :
          daily_challenges' = [daily_challenges EXCEPT ![u] =
              [type |-> c.type, progress |-> 0, target |-> c.target,
               reward |-> c.reward, completed |-> FALSE]]
    /\ player_data' = [player_data EXCEPT ![u].last_challenge_reset = now,
                                          ![u].perfect_streak = 0]
    /\ UNCHANGED <<now, active_predictions, group_data, price_cache,
                   last_api_call, jobs, predicting, checking, clicks, doubles, start_log, api_key, job_queue, predict_refused>>

\* line 270: the users counted by /start of user_id
CountedPlayers(leaderboard, user_id) ==
    {v \in DOMAIN leaderboard : leaderboard[v] # NoEntry} \cup {user_id}

\* /start that grants OG status whatever the chat's og_count
StartCommandNoCap(u, chat_id) ==
    \E c \in challenge_types :
        LET g == generate_daily_challenge(daily_challenges[u], player_data[u],
                                          c, now)
            og == ~g[2].og_status
        IN  /\ daily_challenges' = [daily_challenges EXCEPT ![u] = g[1]]
            /\ player_data' = [player_data EXCEPT ![u] =
                  [g[2] EXCEPT !.og_status = IF og THEN TRUE ELSE @]]
            /\ group_data' = [group_data EXCEPT
                  ![chat_id].og_count = IF og THEN @ + 1 ELSE @,
                  ![chat_id].total_players =
                      Cardinality(CountedPlayers(group_data[chat_id].leaderboard, u))]
            /\ start_log' = start_log \cup
                              {[user |-> u, chat |-> chat_id, og |-> og]}
            /\ UNCHANGED <<now, active_predictions, price_cache, last_api_call,
                           jobs, predicting, checking, clicks, doubles, api_key, job_queue, predict_refused>>

\* lines 247-345: /start of user u in chat chat_id, up to its reply
StartCommand(u, chat_id) ==
    \E c \in challenge_types :
        LET g == generate_daily_challenge(daily_challenges[u], player_data[u],
                                          c, now)
            og == ~g[2].og_status /\ group_data[chat_id].og_count < OgSlots
        IN  /\ daily_challenges' = [daily_challenges EXCEPT ![u] = g[1]]
            /\ player_data' = [player_data EXCEPT ![u] =
                  [g[2] EXCEPT !.og_status = IF og THEN TRUE ELSE @]]
            /\ group_data' = [group_data EXCEPT
                  ![chat_id].og_count = IF og THEN @ + 1 ELSE @,
                  ![chat_id].total_players =
                      Cardinality(CountedPlayers(group_data[chat_id].leaderboard, u))]
            /\ start_log' = start_log \cup
                              {[user |-> u, chat |-> chat_id, og |-> og]}
            /\ UNCHANGED <<now, active_predictions, price_cache, last_api_call,
                           jobs, predicting, checking, clicks, doubles, api_key, job_queue, predict_refused>>

\* lines 976-1000: /airdrop of user u, once in 24 hours
AirdropCommand(u, airdrop_amount) ==
    /\ ~(now - player_data[u].last_airdrop < DayLength)
    /\ player_data' = [player_data EXCEPT
                          ![u].shard_tokens = @ + airdrop_amount,
                          ![u].last_airdrop = now]
    /\ UNCHANGED <<now, active_predictions, daily_challenges, group_data,
                   price_cache, last_api_call, jobs, predicting, checking,
                   clicks, doubles, start_log, api_key, job_queue, predict_refused>>

\* the inputs besides accepted /predict and /check taken so far: button
\* clicks, /start answers, daily challenges drawn, airdrops and users whose
\* /predict was refused
InputsSeen ==
    Len(clicks) + Cardinality(start_log)
    + Cardinality({u \in Users : daily_challenges[u] # NoChallenge})
    + Cardinality({u \in Users : player_data[u].last_airdrop # 0})
    + Cardinality({u \in Users : predict_refused[u] # "none"})

\* the handlers run() registers (lines 1291-1302) and the callbacks of the
\* job queue.  /results, /profile, /shop, /leaderboard, /challenge and
\* /stats only read and reply.
Next ==
    \/ Tick
    \/ Len(active_predictions) < MaxPredictions /\ PredictCommand(Owner, 1)
    \/ InputsSeen < MaxInputs /\ PredictRefused(Owner, 1)
    \/ PredictResume(1)
    \/ PredictSchedule(1)
    \/ PredictScheduleFails(1)
    \/ PredictReplyFails(1)
    \/ \E j \in 1..Len(jobs) : JobFire(j) \/ JobResume(j) \/ JobFinish(j)
    \/ CheckCommand(Owner)
    \/ CheckResume(Owner)
    \/ CheckNext(Owner)
    \/ /\ InputsSeen < MaxInputs
       /\ \E press \in ClickInputs, i \in 1..Len(active_predictions) :
             ClickReceive(press[1], i, press[2])
    \/ \E c \in 1..Len(clicks) : ClickHandle(c)
    \/ InputsSeen < MaxInputs /\ DailyCommand(Owner)
    \/ InputsSeen < MaxInputs /\ StartCommand(Owner, Chat)
    \/ /\ InputsSeen < MaxInputs
       /\ \E airdrop_amount \in AirdropAmounts :
             AirdropCommand(Owner, airdrop_amount)

Spec == Init /\ [][Next]_vars

(***************************************************************************)
(* SpecResolve: check_prediction_result applied to drawn inputs.  The       *)
(* initial states hold one locked prediction, created at Epoch and due      *)
(* now, for a player whose record is the one the code leaves after a run    *)
(* of wins (and, for one record, a loss after a win); the price cache is    *)
(* either fresh, written at this instant with any quote of LedgerPrices or  *)
(* the quote 0, or stale, so that the price is fetched: from the creation   *)
(* of the prediction, or a quote of 0 that the API gave 30 s later to a     *)
(* lookup for another prediction of the asset.                              *)
(***************************************************************************)
\* an earlier prediction of the player, locked "up" without whale mode
PastPrediction ==
    [NewPrediction(Owner, Chat, "bitcoin", 10000, 0, FALSE) EXCEPT
        !.locked = TRUE, !.direction = "up"]

\* lines 651-684: the player record after one more win, resolved at tlast
PlayerAfterWin(player, tlast) ==
    WinOutcome(PastPrediction,
               [player EXCEPT !.last_play = tlast, !.total_predictions = @ + 1],
               NoChallenge, 10150, price_change_pct(10000, 10150)).player

\* lines 651-654 and 738-758: the player record after one more loss
PlayerAfterLoss(player, tlast) ==
    LossOutcome(PastPrediction,
                [player EXCEPT !.last_play = tlast, !.total_predictions = @ + 1],
                NoChallenge, 9800, price_change_pct(10000, 9800)).player

\* the record of a new player after n wins in a row
RECURSIVE PlayerAfterWins(_, _)
PlayerAfterWins(n, tlast) ==
    IF n = 0 THEN DefaultPlayer
    ELSE CHOOSE q \in {PlayerAfterWin(p, tlast) :
                          p \in {PlayerAfterWins(n - 1, tlast)}} : TRUE

\* the last resolution is a cooldown before the prediction at Epoch
LedgerPlayers ==
    {PlayerAfterWins(n, Epoch - CooldownFree) : n \in LedgerWins}
    \cup {PlayerAfterLoss(PlayerAfterWins(1, Epoch - CooldownFree),
                          Epoch - CooldownFree)}

\* lines 651-786 for an earlier prediction: the record and the challenge
\* after one more win or loss, resolved at tlast
LedgerStep(st, won, tlast) ==
    LET p0 == [st.player EXCEPT !.last_play = tlast,
                                !.total_predictions = @ + 1]
        out == IF won
               THEN WinOutcome(PastPrediction, p0, st.challenge, 10150,
                               price_change_pct(10000, 10150))
               ELSE LossOutcome(PastPrediction, p0, st.challenge, 9800,
                                price_change_pct(10000, 9800))
    IN  [player |-> out.player, challenge |-> out.challenge]

\* n wins in a row
RECURSIVE LedgerRun(_, _, _)
LedgerRun(st, n, tlast) ==
    IF n = 0 THEN st
    ELSE CHOOSE q \in {LedgerStep(s, TRUE, tlast) :
                          s \in {LedgerRun(st, n - 1, tlast)}} : TRUE

\* k rounds of four wins and a loss
RECURSIVE LedgerRounds(_, _, _)
LedgerRounds(st, k, tlast) ==
    IF k = 0 THEN st
    ELSE CHOOSE q \in {LedgerStep(LedgerRun(s, 4, tlast), FALSE, tlast) :
                          s \in {LedgerRounds(st, k - 1, tlast)}} : TRUE

\* a user that has not used the bot
NewUser == [player |-> DefaultPlayer, challenge |-> NoChallenge]

\* a new user after /daily, which drew the challenge c an hour before Epoch
DailyUser(c) ==
    LET g == generate_daily_challenge(NoChallenge, DefaultPlayer, c, Epoch - 3600)
    IN  [player |-> g[2], challenge |-> g[1]]

\* the wins in a row of the users that hold a daily challenge
DailyWins == {1, 4, 13}

(* The records and daily challenges drawn: those of LedgerPlayers without   *)
(* a challenge; a user four wins into a streak after GrinderRounds rounds   *)
(* of four wins and a loss; users that drew a daily challenge and then won  *)
(* 1, 4 or 13 times in a row.  double_xp_remaining is 0 in every record:    *)
(* the only write to it is the decrement of line 1071.                      *)
LedgerStates ==
    {[player |-> p, challenge |-> NoChallenge] : p \in LedgerPlayers}
    \cup {LedgerRun(LedgerRounds(NewUser, GrinderRounds, Epoch - CooldownFree),
                    4, Epoch - CooldownFree)}
    \cup {LedgerRun(DailyUser(c), n, Epoch - CooldownFree) :
             c \in challenge_types, n \in DailyWins}

\* the clicks that leave a prediction locked in `direction`
LockingClicks(whale, direction) ==
    (IF whale
     THEN <<[user |-> Owner, pred |-> 1, data |-> "whale", resp |-> "whale_mode"]>>
     ELSE <<>>)
    \o <<[user |-> Owner, pred |-> 1, data |-> direction, resp |-> "locked"]>>

\* when the cache entry of InitResolve was written: now, or by the lookup
\* of the /predict that stored the prediction, or, a quote of 0, by a
\* lookup made for another prediction once that entry had expired
CachedAt(fresh, quote) ==
    IF fresh THEN Epoch + PredictionWindow
    ELSE IF quote = 0 THEN Epoch + cache_duration
    ELSE Epoch

InitResolve ==
    /\ doubles = Doubles
    /\ api_key = FALSE
    /\ job_queue = TRUE
    /\ predict_refused = [u \in Users |-> "none"]
    /\ start_log = {}
    /\ \E st \in LedgerStates, shields \in ShieldDraws,
       direction \in {"up", "down"}, fud \in BOOLEAN, whale \in BOOLEAN,
       start \in LedgerPrices, fresh \in BOOLEAN,
       quote \in LedgerPrices \cup {0} :
        /\ fresh \/ quote \in {start, 0}
        /\ now = Epoch + PredictionWindow
        /\ active_predictions =
             <<[NewPrediction(Owner, Chat, "bitcoin", start, Epoch, fud) EXCEPT
                   !.locked = TRUE, !.direction = direction,
                   !.whale_mode = whale]>>
        /\ player_data =
             [u \in Users |->
                 IF u = Owner
                 THEN [st.player EXCEPT
                          !.streak_shields = shields,
                          !.whale_powerups = IF whale THEN @ - 1 ELSE @]
                 ELSE DefaultPlayer]
        /\ daily_challenges =
             [u \in Users |-> IF u = Owner THEN st.challenge ELSE NoChallenge]
        /\ group_data =
             [c \in Chats |->
                 [DefaultGroup EXCEPT
                     !.leaderboard[Owner] =
                         IF st.player.wins > 0 THEN st.player.best_streak ELSE @]]
        /\ price_cache =
             [sym \in CryptoSymbols |->
                 [price |-> quote, timestamp |-> CachedAt(fresh, quote)]]
        /\ last_api_call = CachedAt(fresh, quote)
        /\ jobs = <<NewJob(1, Epoch)>>
        /\ predicting = [h \in Handlers |-> IdlePredict]
        /\ checking = [u \in Users |-> IdleCheck]
        /\ clicks = LockingClicks(whale, direction)

NextResolve ==
    \E j \in 1..Len(jobs) : JobFire(j) \/ JobResume(j) \/ JobFinish(j)

SpecResolve == InitResolve /\ [][NextResolve]_vars

(***************************************************************************)
(* SpecTwo: two resolutions of one user in flight.  The user stored a       *)
(* prediction at Epoch and, its callback being late, a second one 60 s      *)
(* later; both are locked, at most one of them in whale mode, and both      *)
(* callbacks are due.  The cache is stale, so each resolution fetches the   *)
(* price and may suspend in get_crypto_price while the other one runs.      *)
(***************************************************************************)
\* the start prices drawn for the two predictions
TwoStarts == {10000, 10110}

InitTwo ==
    /\ doubles = Doubles
    /\ api_key = FALSE
    /\ job_queue = TRUE
    /\ predict_refused = [u \in Users |-> "none"]
    /\ start_log = {}
    /\ \E whale \in 0..2, d1 \in {"up", "down"}, d2 \in {"up", "down"},
          fud \in 0..2, s1 \in TwoStarts, s2 \in TwoStarts :
        /\ now = Epoch + 2 * PredictionWindow
        /\ active_predictions =
             <<[NewPrediction(Owner, Chat, "bitcoin", s1, Epoch, fud = 1) EXCEPT
                   !.locked = TRUE, !.direction = d1, !.whale_mode = (whale = 1)],
               [NewPrediction(Owner, Chat, "bitcoin", s2,
                              Epoch + PredictionWindow, fud = 2) EXCEPT
                   !.locked = TRUE, !.direction = d2, !.whale_mode = (whale = 2)]>>
        /\ player_data =
             [u \in Users |->
                 IF u = Owner
                 THEN [DefaultPlayer EXCEPT
                          !.whale_powerups = IF whale > 0 THEN @ - 1 ELSE @]
                 ELSE DefaultPlayer]
        /\ price_cache =
             [sym \in CryptoSymbols |->
                 [price |-> s2, timestamp |-> Epoch + PredictionWindow]]
        /\ clicks =
             (IF whale > 0
              THEN <<[user |-> Owner, pred |-> whale, data |-> "whale",
                      resp |-> "whale_mode"]>>
              ELSE <<>>)
             \o <<[user |-> Owner, pred |-> 1, data |-> d1, resp |-> "locked"],
                  [user |-> Owner, pred |-> 2, data |-> d2, resp |-> "locked"]>>
    /\ daily_challenges = [u \in Users |-> NoChallenge]
    /\ group_data = [c \in Chats |-> DefaultGroup]
    /\ last_api_call = Epoch + PredictionWindow
    /\ jobs = <<NewJob(1, Epoch), NewJob(2, Epoch + PredictionWindow)>>
    /\ predicting = [h \in Handlers |-> IdlePredict]
    /\ checking = [u \in Users |-> IdleCheck]

SpecTwo == InitTwo /\ [][NextResolve]_vars

(***************************************************************************)
(* SpecStart: /start commands in two chats.  Nine users have already sent   *)
(* /start in the first chat and hold its first nine OG slots; two users     *)
(* are new.  The commands drawn are those of the new users and of one of    *)
(* the nine, in either chat.                                                *)
(***************************************************************************)
\* the users that already hold an OG slot of the first chat
Veterans == 1..(OgSlots - 1)

\* the users that have not used the bot yet
Newcomers == {OgSlots, OgSlots + 1}

Starters == Veterans \cup Newcomers

\* the users whose /start commands are drawn
Callers == {1} \cup Newcomers

StartChats == {10, 20}

\* the state after the /start of each veteran in the first chat, each with
\* the same daily challenge drawn
InitStart ==
    /\ now = Epoch
    /\ active_predictions = <<>>
    /\ player_data =
         [u \in Starters |->
             IF u \in Veterans
             THEN [DefaultPlayer EXCEPT !.og_status = TRUE,
                                        !.last_challenge_reset = Epoch]
             ELSE DefaultPlayer]
    /\ daily_challenges =
         [u \in Starters |->
             IF u \in Veterans
             THEN [type |-> "predictions", progress |-> 0, target |-> 5,
                   reward |-> 200, completed |-> FALSE]
             ELSE NoChallenge]
    /\ group_data =
         [c \in StartChats |->
             [leaderboard |-> [u \in Starters |-> NoEntry],
              og_count |-> IF c = Chat THEN OgSlots - 1 ELSE 0,
              total_players |-> IF c = Chat THEN 1 ELSE 0,
              group_score |-> 0]]
    /\ price_cache = [sym \in CryptoSymbols |-> NoCache]
    /\ last_api_call = 0
    /\ jobs = <<>>
    /\ predicting = [h \in Handlers |-> IdlePredict]
    /\ checking = [u \in Users |-> IdleCheck]
    /\ clicks = <<>>
    /\ doubles = Doubles
    /\ api_key = FALSE
    /\ job_queue = TRUE
    /\ predict_refused = [u \in Users |-> "none"]
    /\ start_log = {[user |-> u, chat |-> Chat, og |-> TRUE] : u \in Veterans}

NextStart == \E u \in Callers, chat_id \in StartChats : StartCommand(u, chat_id)

SpecStart == InitStart /\ [][NextStart]_vars

(***************************************************************************)
(* SpecPredict: /predict commands of one user, handled one after the other, *)
(* on a clock that also advances by the seconds of an asyncio.sleep.  No    *)
(* callback fires and nothing is clicked: the callback is late or was never *)
(* scheduled (lines 448-455).                                               *)
(***************************************************************************)
\* the clock during an asyncio.sleep
Nap ==
    /\ now + NapStep <= Epoch + MaxNapped
    /\ now' = now + NapStep
    /\ UNCHANGED <<active_predictions, player_data, daily_challenges,
                   group_data, price_cache, last_api_call, jobs, predicting,
                   checking, clicks, doubles, start_log, api_key, job_queue, predict_refused>>

NextPredict ==
    \/ Nap
    \/ Tick
    \/ \E h \in Handlers :
          /\ Len(active_predictions) < MaxStored
          /\ PredictCommand(Owner, h)
    \/ \E h \in Handlers : PredictRefused(Owner, h)
    \/ \E h \in Handlers : PredictResume(h)
    \/ \E h \in Handlers : PredictSchedule(h)
    \/ \E h \in Handlers : PredictScheduleFails(h)
    \/ \E h \in Handlers : PredictReplyFails(h)

SpecPredict == Init /\ [][NextPredict]_vars

(***************************************************************************)
(* SpecCooldown: a /predict command while a resolution of the same user is  *)
(* due.  The user stored a prediction 60 s ago and locked a direction; its  *)
(* callback is due now and the cache is stale.  The user never played       *)
(* before, so last_play is 0 and the cooldown test of a new /predict        *)
(* passes.                                                                  *)
(***************************************************************************)
InitCooldown ==
    /\ doubles = Doubles
    /\ api_key \in BOOLEAN
    /\ job_queue = TRUE
    /\ predict_refused = [u \in Users |-> "none"]
    /\ start_log = {}
    /\ now = Epoch
    /\ \E direction \in {"up", "down"}, start \in TwoStarts :
        /\ active_predictions =
             <<[NewPrediction(Owner, Chat, "bitcoin", start,
                              Epoch - PredictionWindow, FALSE) EXCEPT
                   !.locked = TRUE, !.direction = direction]>>
        /\ price_cache =
             [sym \in CryptoSymbols |->
                 [price |-> start, timestamp |-> Epoch - PredictionWindow]]
        /\ clicks = LockingClicks(FALSE, direction)
    /\ player_data = [u \in Users |-> DefaultPlayer]
    /\ daily_challenges = [u \in Users |-> NoChallenge]
    /\ group_data = [c \in Chats |-> DefaultGroup]
    /\ last_api_call = Epoch - PredictionWindow
    /\ jobs = <<NewJob(1, Epoch - PredictionWindow)>>
    /\ predicting = [h \in Handlers |-> IdlePredict]
    /\ checking = [u \in Users |-> IdleCheck]

NextCooldown ==
    \/ NextPredict
    \/ NextResolve

SpecCooldown == InitCooldown /\ [][NextCooldown]_vars

(***************************************************************************)
(* SpecPrice: get_crypto_price called by /predict on drawn caches.  Either  *)
(* no price was fetched yet, or another user's /predict fetched one some    *)
(* seconds ago: the cache holds it, and that user's prediction is stored.   *)
(* COINGECKO_API_KEY is not set: the key only adds a header to the request *)
(* (lines 191-192), and no player has played, so the cooldown of either     *)
(* tier has passed.                                                        *)
(***************************************************************************)
\* the age in seconds of the cache entry
CacheAges == {0, 29, 30, 60}

\* the user whose /predict filled the cache
Other == CHOOSE u \in Users : u # Owner

InitPrice ==
    /\ now = Epoch
    /\ \/ /\ active_predictions = <<>>
          /\ price_cache = [sym \in CryptoSymbols |-> NoCache]
          /\ last_api_call = 0
          /\ jobs = <<>>
       \/ \E age \in CacheAges, quote \in Prices \ {0} :
             /\ active_predictions =
                  <<NewPrediction(Other, Chat, "bitcoin", quote, Epoch - age,
                                  FALSE)>>
             /\ price_cache =
                  [sym \in CryptoSymbols |->
                      [price |-> quote, timestamp |-> Epoch - age]]
             /\ last_api_call = Epoch - age
             /\ jobs = <<NewJob(1, Epoch - age)>>
    /\ player_data = [u \in Users |-> DefaultPlayer]
    /\ daily_challenges = [u \in Users |-> NoChallenge]
    /\ group_data = [c \in Chats |-> DefaultGroup]
    /\ predicting = [h \in Handlers |-> IdlePredict]
    /\ checking = [u \in Users |-> IdleCheck]
    /\ clicks = <<>>
    /\ doubles = Doubles
    /\ api_key = FALSE
    /\ job_queue = TRUE
    /\ predict_refused = [u \in Users |-> "none"]
    /\ start_log = {}

SpecPrice == InitPrice /\ [][NextPredict]_vars

\* SpecPrice where a suspended get_crypto_price is resumed: asyncio wakes
\* every coroutine whose sleep is over
SpecPriceFair ==
    /\ InitPrice
    /\ [][NextPredict]_vars
    /\ \A h \in Handlers : WF_vars(PredictResume(h))

(***************************************************************************)
(* Steps of check_prediction_result, read from the positions of its         *)
(* callers.                                                                 *)
(***************************************************************************)
PredictionIds == 1..Len(active_predictions)

OwnerOf(i) == active_predictions[i].user_id

\* the callbacks scheduled for prediction i
JobsOf(i) == {j \in 1..Len(jobs) : jobs[j].pred = i}

\* this step ran check_prediction_result for prediction i, from its entry
\* or resumed inside get_crypto_price
Resolving(i) ==
    \/ \E j \in JobsOf(i) :
          \/ jobs[j].pc = "scheduled" /\ jobs'[j].pc # "scheduled"
          \/ jobs[j].pc = "price" /\ jobs'[j] # jobs[j]
    \/ \E u \in Users :
          \/ checking'[u].pos = i /\ checking[u].pos # i
          \/ /\ checking[u].pc = "price" /\ checking[u].pos = i
             /\ checking'[u] # checking[u]

\* this step applied a win or a loss to prediction i (lines 636-786)
Applied(i) ==
    \/ \E j \in JobsOf(i) :
          jobs[j].pc \in {"scheduled", "price"} /\ jobs'[j].pc = "done"
    \/ \E u \in Users :
          /\ checking'[u].pc = "send" /\ checking'[u].pos = i
          /\ checking[u].pc # "send" \/ checking[u].pos # i

\* this step found no price for prediction i (line 618)
ErrorEntered(i) ==
    \/ \E j \in JobsOf(i) :
          jobs[j].pc # "error_edit" /\ jobs'[j].pc = "error_edit"
    \/ \E u \in Users :
          /\ checking'[u].pc = "error_edit" /\ checking'[u].pos = i
          /\ checking[u].pc # "error_edit" \/ checking[u].pos # i

\* this step stored the result of the no-price path (line 634)
ErrorFinished(i) ==
    \/ \E j \in JobsOf(i) :
          jobs[j].pc = "error_edit" /\ jobs'[j].pc # "error_edit"
    \/ \E u \in Users :
          /\ checking[u].pc = "error_edit" /\ checking[u].pos = i
          /\ checking'[u] # checking[u]

LedgerFields(u) ==
    <<player_data[u].shard_tokens, player_data[u].xp, player_data[u].streak,
      player_data[u].wins, player_data[u].total_predictions>>

FrameFields(u) ==
    <<player_data[u].streak, player_data[u].shard_tokens, player_data[u].xp,
      player_data[u].total_predictions, player_data[u].last_play>>

ResultFields(i) ==
    <<active_predictions[i].result, active_predictions[i].final_price,
      active_predictions[i].price_change_pct,
      active_predictions[i].tokens_earned>>

RECURSIVE RewardsFrom(_, _)
RewardsFrom(ids, k) ==
    IF k > Len(ids) THEN 0
    ELSE AchievementReward(ids[k]) + RewardsFrom(ids, k + 1)

\* the tokens this step granted to u for achievements and the daily challenge
GrantedRewards(u) ==
    RewardsFrom(player_data'[u].achievements,
                Len(player_data[u].achievements) + 1)
    + (IF daily_challenges'[u].completed /\ ~daily_challenges[u].completed
       THEN daily_challenges'[u].reward ELSE 0)

(***************************************************************************)
(* Claims.                                                                  *)
(***************************************************************************)
\* C1: running check_prediction_result again for a prediction already
\* resolved as won or lost leaves the owner's shard_tokens, xp, streak, wins
\* and total_predictions as they were.
C1_SecondResolveIsNoOp ==
    [][\A i \in PredictionIds :
          (active_predictions[i].result \in {"won", "lost"} /\ Resolving(i))
          => LedgerFields(OwnerOf(i))' = LedgerFields(OwnerOf(i))]_vars

\* C2: whatever the order of /check and the scheduled callback, the outcome
\* of a locked prediction is applied once: a user's total_predictions never
\* exceeds the number of that user's locked predictions.
C2_AppliedOnce ==
    \A u \in Users :
        player_data[u].total_predictions
            <= Cardinality({i \in PredictionIds :
                              OwnerOf(i) = u /\ active_predictions[i].locked})

\* C3: once a prediction's result is set, no step changes its result,
\* final_price, price_change_pct or tokens_earned.
C3_ResultImmutable ==
    [][\A i \in PredictionIds :
          active_predictions[i].result # "none"
          => ResultFields(i)' = ResultFields(i)]_vars

\* C4: a resolution that finds no direction takes the expiry path, stores
\* the result 'expired', and leaves the owner's streak, shard_tokens, xp,
\* total_predictions and last_play unchanged.
C4_ExpiredFrame ==
    [][\A i \in PredictionIds :
          /\ (Resolving(i) /\ active_predictions[i].direction = "none")
             => /\ \E j \in JobsOf(i) :
                      jobs'[j] # jobs[j] /\ jobs'[j].pc = "expire_edit"
                /\ FrameFields(OwnerOf(i))' = FrameFields(OwnerOf(i))
          /\ (\E j \in JobsOf(i) :
                 jobs[j].pc = "expire_edit" /\ jobs'[j].pc # "expire_edit")
             => /\ active_predictions'[i].result = "expired"
                /\ FrameFields(OwnerOf(i))' = FrameFields(OwnerOf(i))]_vars

\* a prediction expired by its job, the owner's record untouched
C4_Witness ==
    \E i \in PredictionIds :
        /\ active_predictions[i].result = "expired"
        /\ \E j \in JobsOf(i) : jobs[j].pc = "done"
        /\ player_data[OwnerOf(i)].total_predictions = 0
        /\ player_data[OwnerOf(i)].shard_tokens = DefaultPlayer.shard_tokens

\* C5: a resolution of a locked prediction whose price lookup returns no
\* price stores the result 'error', and the owner's player record is the
\* same after it as before it.
C5_ErrorFrame ==
    [][\A i \in PredictionIds :
          /\ ErrorEntered(i)
             => /\ active_predictions[i].direction # "none"
                /\ player_data'[OwnerOf(i)] = player_data[OwnerOf(i)]
          /\ ErrorFinished(i)
             => /\ active_predictions'[i].result = "error"
                /\ (\A j \in PredictionIds : ~Applied(j))
                   => player_data'[OwnerOf(i)] = player_data[OwnerOf(i)]]_vars

\* a locked prediction resolved as 'error', nothing counted for the owner
C5_Witness ==
    \E i \in PredictionIds :
        /\ active_predictions[i].result = "error"
        /\ active_predictions[i].locked
        /\ active_predictions[i].direction # "none"
        /\ player_data[OwnerOf(i)].total_predictions = 0

\* C6: a winning resolution records tokens_earned = 10 * whaleMultiplier *
\* (10 + s), s the owner's streak before the increment.
C6_TokensFormula ==
    [][\A i \in PredictionIds :
          (Applied(i) /\ active_predictions'[i].result = "won")
          => active_predictions'[i].tokens_earned
               = 10 * (IF active_predictions[i].whale_mode THEN 3 ELSE 1)
                    * (10 + player_data[OwnerOf(i)].streak)]_vars

\* scenario A: streak 0, 'up' without whale mode or FUD, 100.00 -> 101.50
ScenarioA(i) ==
    /\ Applied(i)
    /\ active_predictions[i].start_price = 10000
    /\ active_predictions'[i].final_price = 10150
    /\ active_predictions[i].direction = "up"
    /\ ~active_predictions[i].whale_mode
    /\ ~active_predictions[i].fud_active
    /\ player_data[OwnerOf(i)].streak = 0

\* C7 as stated: in scenario A the resolution is a win, the streak grows by
\* 1 and the balance grows by exactly 100.
C7_BalanceUpBy100 ==
    [][\A i \in PredictionIds :
          ScenarioA(i)
          => /\ active_predictions'[i].result = "won"
             /\ player_data'[OwnerOf(i)].streak = 1
             /\ player_data'[OwnerOf(i)].shard_tokens
                  = player_data[OwnerOf(i)].shard_tokens + 100]_vars

\* C7 amended: in scenario A the resolution is a win, the streak grows by 1,
\* tokens_earned is 100, and the balance grows by 100 plus the rewards of
\* the achievements and of the daily challenge that this resolution grants.
C7_BalanceUpByRewards ==
    [][\A i \in PredictionIds :
          ScenarioA(i)
          => /\ active_predictions'[i].result = "won"
             /\ player_data'[OwnerOf(i)].streak = 1
             /\ active_predictions'[i].tokens_earned = 100
             /\ player_data'[OwnerOf(i)].shard_tokens
                  = player_data[OwnerOf(i)].shard_tokens + 100
                    + GrantedRewards(OwnerOf(i))]_vars

\* scenario A resolved for a player's first win: 100 for the win and 500
\* for the achievement 'first_win'
C7_Witness ==
    \E i \in PredictionIds :
        /\ active_predictions[i].result = "won"
        /\ active_predictions[i].start_price = 10000
        /\ active_predictions[i].final_price = 10150
        /\ active_predictions[i].tokens_earned = 100
        /\ ~active_predictions[i].fud_active
        /\ player_data[OwnerOf(i)].streak = 1
        /\ player_data[OwnerOf(i)].wins = 1
        /\ player_data[OwnerOf(i)].shard_tokens
             = DefaultPlayer.shard_tokens + 100 + AchievementReward("first_win")

\* C8: a locked prediction resolved with a price is won exactly when it is
\* 'up' and the percentage move is at least the required move, or 'down'
\* and the move is at most minus the required move; the required move is
\* 1.1 under FUD and 1.0 otherwise; a move of 100.00 -> 101.00 is exactly
\* 1.0, which wins without FUD and loses with FUD.
C8_WinRule ==
    [][\A i \in PredictionIds :
          Applied(i)
          => LET p == active_predictions[i]
                 q == active_predictions'[i]
                 required == IF p.fud_active THEN FDecimal(11, 1)
                             ELSE FFromInt(1)
             IN  /\ q.result \in {"won", "lost"}
                 /\ q.price_change_pct
                      = Doubles.pct[<<p.start_price, q.final_price>>]
                 /\ q.result = "won"
                    <=> \/ /\ p.direction = "up"
                           /\ FCmp(q.price_change_pct, required) >= 0
                        \/ /\ p.direction = "down"
                           /\ FCmp(q.price_change_pct, FNeg(required)) <= 0
                 /\ (p.start_price = 10000 /\ q.final_price = 10100
                     /\ p.direction = "up")
                    => /\ q.price_change_pct = FFromInt(1)
                       /\ q.result = "won" <=> ~p.fud_active]_vars

\* 'up' on 100.00 -> 101.00 without FUD: the move equals the threshold and
\* the prediction is won
C8_Witness ==
    \E i \in PredictionIds :
        /\ active_predictions[i].start_price = 10000
        /\ active_predictions[i].final_price = 10100
        /\ active_predictions[i].direction = "up"
        /\ ~active_predictions[i].fud_active
        /\ active_predictions[i].price_change_pct = FFromInt(1)
        /\ active_predictions[i].result = "won"

\* C9: a losing resolution with no streak shield sets the streak to 0; with
\* a shield it leaves the streak and takes exactly one shield.
C9_LossStreak ==
    [][\A i \in PredictionIds :
          (Applied(i) /\ active_predictions'[i].result = "lost")
          => LET before == player_data[OwnerOf(i)]
                 after == player_data'[OwnerOf(i)]
             IN  /\ before.streak_shields = 0 => after.streak = 0
                 /\ before.streak_shields > 0
                    => /\ after.streak = before.streak
                       /\ after.streak_shields = before.streak_shields - 1]_vars

\* a streak of 13 lost without a shield
C9_Witness ==
    \E i \in PredictionIds :
        /\ active_predictions[i].result = "lost"
        /\ active_predictions[i].previous_streak = 13
        /\ ~active_predictions[i].streak_protected
        /\ player_data[OwnerOf(i)].streak = 0
        /\ player_data[OwnerOf(i)].streak_shields = 0

\* the owner's direction click c on prediction i is handled in this step
DirectionClickHandled(c, i) ==
    /\ clicks[c].pred = i
    /\ clicks[c].user = OwnerOf(i)
    /\ clicks[c].data \in {"up", "down"}
    /\ clicks[c].resp = "pending"
    /\ clicks'[c].resp # "pending"

\* C10: of the owner's direction clicks on one prediction, the one handled
\* while it is unlocked locks it in its direction and every other one is
\* answered 'already locked'; at most one click ever locks a prediction,
\* and a locked prediction's direction never changes.
C10_OneLock ==
    [][\A i \in PredictionIds :
          /\ active_predictions[i].locked
             => /\ active_predictions'[i].locked
                /\ active_predictions'[i].direction
                     = active_predictions[i].direction
          /\ \A c \in 1..Len(clicks) :
                DirectionClickHandled(c, i)
                => IF active_predictions[i].locked
                   THEN clicks'[c].resp = "already_locked"
                   ELSE /\ clicks'[c].resp = "locked"
                        /\ active_predictions'[i].locked
                        /\ active_predictions'[i].direction = clicks[c].data
          /\ Cardinality({c \in 1..Len(clicks') :
                            clicks'[c].pred = i /\ clicks'[c].resp = "locked"})
               <= 1]_vars

\* two opposite clicks in flight together: the later one was handled first
\* and locked, the earlier one was then refused
C10_Witness ==
    \E c1, c2 \in 1..Len(clicks) :
        /\ c1 < c2
        /\ clicks[c1].pred = clicks[c2].pred
        /\ clicks[c1].user = OwnerOf(clicks[c1].pred)
        /\ clicks[c2].user = OwnerOf(clicks[c1].pred)
        /\ clicks[c1].data \in {"up", "down"}
        /\ clicks[c2].data \in {"up", "down"}
        /\ clicks[c1].data # clicks[c2].data
        /\ clicks[c2].resp = "locked"
        /\ clicks[c1].resp = "already_locked"
        /\ active_predictions[clicks[c1].pred].direction = clicks[c2].data

\* click c is handled in this step
ClickHandled(c) ==
    /\ clicks[c].resp = "pending"
    /\ clicks'[c].resp # "pending"

\* C11: a direction click on a terminal prediction is rejected, so a
\* prediction whose result is 'expired' has no direction and is not locked.
C11_ExpiredNeverLocked ==
    \A i \in PredictionIds :
        active_predictions[i].result = "expired"
        => /\ active_predictions[i].direction = "none"
           /\ ~active_predictions[i].locked

\* C12: a whale-mode click on a locked prediction is rejected: whale_mode of
\* a locked prediction never changes, the click takes no power-up, and a win
\* is paid with the multiplier the prediction was locked with.
C12_WhaleAfterLock ==
    [][\A i \in PredictionIds :
          active_predictions[i].locked
          => /\ active_predictions'[i].whale_mode
                  = active_predictions[i].whale_mode
             /\ \A c \in 1..Len(clicks) :
                   (ClickHandled(c) /\ clicks[c].pred = i
                    /\ clicks[c].data = "whale")
                   => /\ clicks'[c].resp # "whale_mode"
                      /\ player_data' = player_data
             /\ (Applied(i) /\ active_predictions'[i].result = "won")
                => active_predictions'[i].tokens_earned
                     = doubles.reward[<<IF active_predictions[i].whale_mode
                                        THEN 3 ELSE 1,
                                        player_data[OwnerOf(i)].streak>>]]_vars

\* the owner pressed the whale button after locking: refused, the power-up
\* is still there
C12_Witness ==
    \E c \in 1..Len(clicks) :
        /\ clicks[c].data = "whale"
        /\ clicks[c].user = OwnerOf(clicks[c].pred)
        /\ clicks[c].resp = "already_locked"
        /\ active_predictions[clicks[c].pred].locked
        /\ ~active_predictions[clicks[c].pred].whale_mode
        /\ player_data[clicks[c].user].whale_powerups
             = DefaultPlayer.whale_powerups

\* C13: whale mode is activated at most once for a prediction: at most one
\* whale click on it is ever accepted, an accepted click finds whale_mode
\* unset and takes exactly one power-up, and no other step takes one.
C13_WhaleOnce ==
    [][/\ \A i \in PredictionIds :
             /\ Cardinality({c \in 1..Len(clicks') :
                               clicks'[c].pred = i
                               /\ clicks'[c].resp = "whale_mode"}) <= 1
             /\ \A c \in 1..Len(clicks) :
                   (ClickHandled(c) /\ clicks[c].pred = i
                    /\ clicks'[c].resp = "whale_mode")
                   => /\ ~active_predictions[i].whale_mode
                      /\ active_predictions'[i].whale_mode
                      /\ player_data'[OwnerOf(i)].whale_powerups
                           = player_data[OwnerOf(i)].whale_powerups - 1
       /\ \A u \in Users :
             player_data'[u].whale_powerups # player_data[u].whale_powerups
             => \E c \in 1..Len(clicks) :
                   /\ ClickHandled(c)
                   /\ clicks[c].user = u
                   /\ clicks'[c].resp = "whale_mode"]_vars

\* the whale button pressed twice before the direction: the first press is
\* accepted, the second refused
C13_Witness ==
    \E c1, c2 \in 1..Len(clicks) :
        /\ c1 # c2
        /\ clicks[c1].pred = clicks[c2].pred
        /\ clicks[c1].data = "whale" /\ clicks[c2].data = "whale"
        /\ clicks[c1].resp = "whale_mode"
        /\ clicks[c2].resp # "pending"
        /\ ~active_predictions[clicks[c1].pred].locked
        /\ player_data[clicks[c1].user].whale_powerups
             = DefaultPlayer.whale_powerups - 1

\* C14: a whale-mode click by a player with no power-up is rejected: the
\* player record and the prediction are unchanged, and whale_powerups is
\* never negative.
C14_NoPowerups ==
    [][/\ \A c \in 1..Len(clicks) :
             (ClickHandled(c) /\ clicks[c].data = "whale"
              /\ player_data[clicks[c].user].whale_powerups = 0)
             => /\ clicks'[c].resp = "no_powerups"
                /\ player_data' = player_data
                /\ active_predictions' = active_predictions
       /\ \A u \in Users : player_data'[u].whale_powerups >= 0]_vars

\* a whale click answered 'no power-ups' by a player who holds none
C14_Witness ==
    \E c \in 1..Len(clicks) :
        /\ clicks[c].data = "whale"
        /\ clicks[c].resp = "no_powerups"
        /\ player_data[clicks[c].user].whale_powerups = 0

\* C15: a direction or whale click by a user who is not the prediction's
\* owner changes no prediction and no player record.
C15_NonOwnerFrame ==
    [][\A c \in 1..Len(clicks) :
          (ClickHandled(c) /\ clicks[c].user # OwnerOf(clicks[c].pred))
          => /\ clicks'[c].resp \in {"not_owner", "no_powerups"}
             /\ active_predictions' = active_predictions
             /\ player_data' = player_data]_vars

\* another user pressed a direction button and the whale button of an
\* unlocked prediction: both refused
C15_Witness ==
    \E c1, c2 \in 1..Len(clicks) :
        /\ clicks[c1].pred = clicks[c2].pred
        /\ clicks[c1].user # OwnerOf(clicks[c1].pred)
        /\ clicks[c2].user # OwnerOf(clicks[c1].pred)
        /\ clicks[c1].data \in {"up", "down"}
        /\ clicks[c2].data = "whale"
        /\ clicks[c1].resp = "not_owner"
        /\ clicks[c2].resp = "not_owner"
        /\ ~active_predictions[clicks[c1].pred].locked
        /\ ~active_predictions[clicks[c1].pred].whale_mode

\* the predictions of u that have no result yet
Unresolved(u) ==
    {i \in PredictionIds :
        OwnerOf(i) = u /\ active_predictions[i].result = "none"}

\* C16: /predict is rejected while the caller has a prediction that is not
\* completed, so a user never owns two predictions without a terminal
\* result, however late the callback is.
C16_OneUnresolved ==
    \A u \in Users : Cardinality(Unresolved(u)) <= 1

\* the predictions of u that are not completed and less than 60 s old
ActiveOf(u) ==
    {i \in PredictionIds :
        /\ OwnerOf(i) = u
        /\ ~active_predictions[i].completed
        /\ now - active_predictions[i].timestamp < PredictionWindow}

\* C17: a user never owns two stored predictions that are both not
\* completed and less than 60 s old.  Updates are handled one after the
\* other, so a /predict of the user is handled only when the one before it
\* has stored its prediction or returned, and it is refused while that
\* prediction is active.
C17_OneActive ==
    \A u \in Users : Cardinality(ActiveOf(u)) <= 1

\* a /predict sent 2 s after the one that stored a prediction was refused
\* because of it, and one sent when that prediction was 60 s old stored a
\* second one: the user owns two uncompleted predictions, one of them
\* active
C17_Witness ==
    \E i, j \in PredictionIds :
        /\ OwnerOf(i) = Owner /\ OwnerOf(j) = Owner
        /\ ~active_predictions[i].completed
        /\ ~active_predictions[j].completed
        /\ active_predictions[j].timestamp - active_predictions[i].timestamp
              >= PredictionWindow
        /\ predict_refused[Owner] = "active"
        /\ ActiveOf(Owner) = {j}

\* handler slot h ended in this step telling the user the oracle is down
OracleDown(h) ==
    /\ predicting'[h] # predicting[h]
    /\ predicting'[h].pc = "idle"
    /\ predicting'[h].reply = "oracle_down"

\* C20: /predict stores no prediction and schedules no callback when the
\* start-price lookup returns no price: active_predictions, the callbacks
\* and the player records are unchanged, and every stored prediction has a
\* price.
C20_NoPriceNoPrediction ==
    [][/\ \A h \in Handlers :
             OracleDown(h)
             => /\ active_predictions' = active_predictions
                /\ jobs' = jobs
                /\ player_data' = player_data
       /\ \A i \in 1..Len(active_predictions') :
             ~Falsy(active_predictions'[i].start_price)]_vars

\* a /predict that got the quote 0 from the API: the oracle is reported
\* down and nothing is stored
C20_Witness ==
    \E h \in Handlers :
        /\ predicting[h].pc = "idle"
        /\ predicting[h].reply = "oracle_down"
        /\ price_cache["bitcoin"].price = 0
        /\ active_predictions = <<>>
        /\ jobs = <<>>
        /\ player_data[Owner] = DefaultPlayer

\* C18: while the scheduled callback has not fired, every stored prediction
\* that is past its 60 s window and not completed is one that its owner's
\* /check resolves, the predictions without a direction included: no such
\* prediction is left for ever without a terminal result.
C18_CheckReachesOverdue ==
    \A i \in PredictionIds :
        ( /\ ~active_predictions[i].completed
          /\ now - active_predictions[i].timestamp >= PredictionWindow
          /\ \A j \in JobsOf(i) : jobs[j].pc = "scheduled"
          /\ checking[OwnerOf(i)].pc = "idle" )
        => CheckMatches(active_predictions[i], OwnerOf(i), now)

\* lines 636-786 applied to the stored outcome of prediction i: the player
\* record and challenge after it, from the record and challenge before
SequentialStep(st, i) ==
    LET pred == [active_predictions[i] EXCEPT !.result = "none"]
        pct == price_change_pct(pred.start_price, pred.final_price)
        p0 == [st.player EXCEPT
                  !.last_play = now, !.total_predictions = @ + 1]
        out == IF Won(pred.direction, pct, pred.fud_active)
               THEN WinOutcome(pred, p0, st.challenge, pred.final_price, pct)
               ELSE LossOutcome(pred, p0, st.challenge, pred.final_price, pct)
    IN  IF active_predictions[i].result \in {"won", "lost"}
        THEN [player |-> out.player, challenge |-> out.challenge]
        ELSE st

\* the outcomes applied so far, one after the other in the given order, to
\* the record of a new player that has spent its whale power-up if one of
\* the predictions is in whale mode (line 556)
SequentialPlayer(order) ==
    LET whale == \E i \in PredictionIds : active_predictions[i].whale_mode
        player == [DefaultPlayer EXCEPT
                      !.whale_powerups = IF whale THEN @ - 1 ELSE @]
    IN  SequentialStep(
            SequentialStep([player |-> player, challenge |-> NoChallenge],
                           order[1]),
            order[2]).player

\* the fields of a player record that a resolution accumulates
TallyFields(p) ==
    <<p.streak, p.best_streak, p.wins, p.total_predictions, p.shard_tokens>>

\* C19: with two resolutions for predictions of one user in flight and
\* interleaved at their awaits, the user's streak, best_streak, wins,
\* total_predictions and shard_tokens are at every moment those of the
\* outcomes applied so far taken one after the other in some order.
C19_SequentialTally ==
    \E order \in {<<1, 2>>, <<2, 1>>} :
        TallyFields(player_data[Owner]) = TallyFields(SequentialPlayer(order))

\* the first resolution is suspended in its price lookup after a failed
\* request, the second one has fetched the price meanwhile and applied its
\* outcome
C19_Witness ==
    /\ Len(jobs) = 2
    /\ jobs[1].pc = "price"
    /\ jobs[1].attempt >= 1
    /\ active_predictions[1].completed
    /\ active_predictions[1].result = "none"
    /\ jobs[2].pc \in {"send", "done"}
    /\ active_predictions[2].result = "won"
    /\ price_cache["bitcoin"].timestamp = now

\* handler h stores a prediction in this step (lines 399-411)
Stored(h) ==
    /\ predicting[h].pc # "reply"
    /\ predicting'[h].pc = "reply"

\* C21: no prediction is created for a user while less than the cooldown
\* (45 s without an API key, 30 s with one) has elapsed since that user's
\* last_play: at the step that stores a prediction, its owner's last_play
\* is at least the cooldown before the prediction's timestamp.
C21_CooldownAtCreation ==
    [][\A h \in Handlers :
          Stored(h)
          => \A i \in 1..Len(active_predictions') :
                active_predictions'[i].timestamp = now
                => now - player_data[active_predictions'[i].user_id].last_play
                      >= cooldown]_vars

\* the /start commands of the log that were answered with the OG message
OgGrants == {e \in start_log : e.og}

\* C22: each chat's og_count is at most 10 and equals the number of users
\* granted OG status by a /start in that chat; a user is granted OG status
\* at most once, holds it exactly when it was granted, and never loses it.
C22_OgSlots ==
    /\ [](/\ \A c \in DOMAIN group_data :
               /\ group_data[c].og_count <= OgSlots
               /\ group_data[c].og_count =
                     Cardinality({e \in OgGrants : e.chat = c})
          /\ \A u \in DOMAIN player_data :
               /\ Cardinality({e \in OgGrants : e.user = u}) <= 1
               /\ player_data[u].og_status <=> \E e \in OgGrants : e.user = u)
    /\ [][\A u \in DOMAIN player_data :
             player_data[u].og_status => player_data'[u].og_status]_vars

\* a newcomer was refused the full first chat's OG status, and got the OG
\* status in the second chat
C22_Witness ==
    \E u \in Newcomers :
        /\ [user |-> u, chat |-> 10, og |-> FALSE] \in start_log
        /\ [user |-> u, chat |-> 20, og |-> TRUE] \in start_log
        /\ group_data[10].og_count = OgSlots
        /\ group_data[20].og_count = 1

\* the users recorded in chat c: those that sent /start there and those on
\* its leaderboard
Recorded(c) ==
    {e.user : e \in {x \in start_log : x.chat = c}}
    \cup {v \in DOMAIN group_data[c].leaderboard :
             group_data[c].leaderboard[v] # NoEntry}

\* C23: after a /start in a chat, the chat's total_players is the number of
\* distinct users ever recorded in that chat.
C23_TotalPlayers ==
    [][\A c \in DOMAIN group_data :
          start_log' # start_log
          => group_data'[c].total_players = Cardinality(Recorded(c)')]_vars

\* the tokens_earned of the win this step applied for u, 0 without one
WinTokens(u) ==
    LET wins == {i \in PredictionIds :
                    /\ OwnerOf(i) = u
                    /\ Applied(i)
                    /\ active_predictions'[i].result = "won"}
    IN  IF wins = {} THEN 0
        ELSE active_predictions'[CHOOSE i \in wins : TRUE].tokens_earned

\* seq is the beginning of seq2
IsPrefix(seq, seq2) ==
    /\ Len(seq) <= Len(seq2)
    /\ \A k \in 1..Len(seq) : seq2[k] = seq[k]

\* the challenge reward this step paid to u
ChallengePaid(u) ==
    IF daily_challenges'[u].completed /\ ~daily_challenges[u].completed
    THEN daily_challenges'[u].reward ELSE 0

\* C24: each achievement is granted to a player at most once: the list of
\* achievements holds no duplicate and only grows at its end, and a step
\* changes the balance by the win's tokens, the challenge reward it pays and
\* the rewards of exactly the achievements it adds.
C24_AchievementsOnce ==
    /\ [](\A u \in DOMAIN player_data :
             \A k, l \in 1..Len(player_data[u].achievements) :
                player_data[u].achievements[k] = player_data[u].achievements[l]
                => k = l)
    /\ [][\A u \in DOMAIN player_data :
             /\ IsPrefix(player_data[u].achievements, player_data'[u].achievements)
             /\ player_data'[u].shard_tokens
                  = player_data[u].shard_tokens + WinTokens(u) + ChallengePaid(u)
                    + RewardsFrom(player_data'[u].achievements,
                                  Len(player_data[u].achievements) + 1)]_vars

\* the fifth win in a row of a user that holds 'first_win' only: 140 tokens
\* for the win and 1000 for 'streak_5', added once
C24_Witness ==
    \E i \in PredictionIds :
        /\ active_predictions[i].result = "won"
        /\ active_predictions[i].tokens_earned = 140
        /\ player_data[OwnerOf(i)].achievements = <<"first_win", "streak_5">>
        /\ player_data[OwnerOf(i)].shard_tokens = 9320 + 140 + 1000

\* C25: check_achievements is idempotent: called again right after the call
\* of a winning resolution, it adds no achievement and leaves shard_tokens
\* and the achievements list as they are.
C25_CheckTwice ==
    [][\A i \in PredictionIds :
          (Applied(i) /\ active_predictions'[i].result = "won")
          => check_achievements(player_data'[OwnerOf(i)])
               = player_data'[OwnerOf(i)]]_vars

\* C26: when a win or loss resolution has been applied, every achievement
\* whose predicate holds on the owner's fields is in the owner's
\* achievements list.
C26_AchievementsCurrent ==
    [][\A i \in PredictionIds :
          Applied(i)
          => \A k \in 1..Len(AchievementIds) :
                AchievementCondition(player_data'[OwnerOf(i)], AchievementIds[k])
                => InSeq(AchievementIds[k],
                         player_data'[OwnerOf(i)].achievements)]_vars

\* the highest level of the table whose threshold is at most xp
TableLevel(xp) ==
    CHOOSE l \in 1..Len(level_requirements) :
        /\ level_requirements[l] <= xp
        /\ \A m \in 1..Len(level_requirements) :
              level_requirements[m] <= xp => m <= l

\* C27: in every reachable state a player's level is the highest level of
\* the threshold table whose threshold is at most the player's xp, and xp
\* and level never decrease.
C27_LevelOfXp ==
    /\ [](\A u \in DOMAIN player_data :
             player_data[u].level = TableLevel(player_data[u].xp))
    /\ [][\A u \in DOMAIN player_data :
             /\ player_data'[u].xp >= player_data[u].xp
             /\ player_data'[u].level >= player_data[u].level]_vars

\* a second win that takes the player from 55 xp to 115 xp, past the
\* threshold 100 of level 2
C27_Witness ==
    \E i \in PredictionIds :
        /\ active_predictions[i].result = "won"
        /\ active_predictions[i].xp_earned = 60
        /\ player_data[OwnerOf(i)].xp = 115
        /\ player_data[OwnerOf(i)].level = 2

\* C28: an active daily challenge pays out exactly once: the reward is
\* added to shard_tokens and daily_challenges_completed is incremented only
\* at the step where progress first reaches the target, and a completed
\* challenge is not changed by any further update.
C28_ChallengePaysOnce ==
    [][\A u \in DOMAIN daily_challenges :
          LET c == daily_challenges[u]
              d == daily_challenges'[u]
              crossed == /\ ~c.completed /\ d.completed
                         /\ c.progress < c.target /\ d.progress >= d.target
          IN  /\ c.completed => d = c
              /\ d.completed <=> (c.completed \/ crossed)
              /\ player_data'[u].daily_challenges_completed
                   = player_data[u].daily_challenges_completed
                     + (IF crossed THEN 1 ELSE 0)
              /\ player_data'[u].shard_tokens
                   = player_data[u].shard_tokens + WinTokens(u)
                     + RewardsFrom(player_data'[u].achievements,
                                   Len(player_data[u].achievements) + 1)
                     + (IF crossed THEN c.reward ELSE 0)]_vars

\* the 'win_streak' challenge completed by the second win in a row
\* (progress 1 + 2), paid once: 110 for the win and 300 for the challenge
C28_Witness ==
    \E i \in PredictionIds :
        /\ active_predictions[i].result = "won"
        /\ active_predictions[i].tokens_earned = 110
        /\ daily_challenges[OwnerOf(i)].type = "win_streak"
        /\ daily_challenges[OwnerOf(i)].completed
        /\ daily_challenges[OwnerOf(i)].progress = 3
        /\ player_data[OwnerOf(i)].daily_challenges_completed = 1
        /\ player_data[OwnerOf(i)].shard_tokens = 1600 + 110 + 300

\* handler h entered get_crypto_price in this step (line 390)
Called(h) == predicting[h].pc = "idle" /\ predicting'[h] # predicting[h]

\* the get_crypto_price of handler h ran in this step
InPrice(h) == predicting[h].pc # "reply" /\ predicting'[h] # predicting[h]

\* symbol has a cache entry less than cache_duration old
Fresh(symbol) ==
    /\ price_cache[symbol].price # NoPrice
    /\ now - price_cache[symbol].timestamp < cache_duration

\* C29: get_crypto_price called with a cache entry less than 30 seconds old
\* returns the cached price without a network call (the cache and
\* last_api_call stay as they are), and a fetch that succeeds leaves that
\* fetched price and the fetch time in the cache.
C29_CacheFirst ==
    [][\A h \in Handlers, symbol \in CryptoSymbols :
          /\ (Called(h) /\ Fresh(symbol))
             => /\ predicting'[h].price_log = "cached"
                /\ predicting'[h].price = price_cache[symbol].price
                /\ price_cache' = price_cache
                /\ last_api_call' = last_api_call
          /\ (InPrice(h) /\ predicting'[h].price_log = "fetched")
             => /\ price_cache'[symbol] =
                     [price |-> predicting'[h].price, timestamp |-> now]
                /\ last_api_call' = now]_vars

\* a /predict answered from a cache entry 29 s old: the prediction holds
\* the cached price, and no request was sent
C29_Witness ==
    \E h \in Handlers, i \in PredictionIds :
        /\ predicting[h].price_log = "cached"
        /\ predicting[h].reply = "prediction"
        /\ OwnerOf(i) = Owner
        /\ active_predictions[i].start_price = price_cache["bitcoin"].price
        /\ active_predictions[i].timestamp - price_cache["bitcoin"].timestamp = 29
        /\ last_api_call = price_cache["bitcoin"].timestamp

\* C30: when every network attempt of a get_crypto_price call has failed,
\* the call returns the cached price if the asset has a cache entry,
\* however old, and returns no price only if it has none; the cache stays
\* as it is.
C30_StaleFallback ==
    [][\A h \in Handlers, symbol \in CryptoSymbols :
          (InPrice(h)
           /\ predicting'[h].price_log \in {"expired_cache", "failed"})
          => /\ price_cache' = price_cache
             /\ IF price_cache[symbol].price # NoPrice
                THEN /\ predicting'[h].price_log = "expired_cache"
                     /\ predicting'[h].price = price_cache[symbol].price
                ELSE /\ predicting'[h].price_log = "failed"
                     /\ predicting'[h].price = NoPrice]_vars

\* a /predict whose requests all failed, answered from a cache entry more
\* than two minutes old
C30_Witness ==
    \E h \in Handlers, i \in PredictionIds :
        /\ predicting[h].price_log = "expired_cache"
        /\ predicting[h].reply = "prediction"
        /\ OwnerOf(i) = Owner
        /\ active_predictions[i].start_price = price_cache["bitcoin"].price
        /\ active_predictions[i].timestamp - price_cache["bitcoin"].timestamp >= 120

(***************************************************************************)
(* C31..C32: the requests of get_crypto_price.                             *)
(***************************************************************************)
\* the requests the get_crypto_price of slot h makes in this step
FetchesIn(h) ==
    IF ~InPrice(h) THEN 0
    ELSE predicting'[h].fetches
         - (IF predicting[h].pc = "price" THEN predicting[h].fetches ELSE 0)

\* C31: two consecutive requests of get_crypto_price are at least
\* min_api_interval seconds apart: a step in which an invocation makes a
\* request makes one only, no sooner than min_api_interval after the
\* request before it (last_api_call).
C31_RequestsSpaced ==
    [][\A h \in Handlers :
          FetchesIn(h) > 0 =>
              /\ FetchesIn(h) = 1
              /\ now - last_api_call >= min_api_interval]_vars

\* what a returned get_crypto_price left in slot h: a price with the line
\* it logged, or None after the line "Failed to fetch"
Returned(h) ==
    /\ predicting[h].reply \in
          {"prediction", "oracle_down", "no_job_queue", "timer_issue"}
    /\ \/ /\ predicting[h].price_log \in {"cached", "fetched", "expired_cache"}
          /\ predicting[h].price # NoPrice
       \/ /\ predicting[h].price_log = "failed"
          /\ predicting[h].price = NoPrice

\* C32: get_crypto_price makes at most `retries` requests, returns a price
\* or None whatever the requests end in, and every suspended invocation
\* returns.
C32_Terminates ==
    /\ [](\A h \in Handlers :
            /\ predicting[h].fetches <= retries
            /\ predicting[h].pc # "price" /\ predicting[h].reply # "none"
                   => Returned(h))
    /\ \A h \in Handlers :
          (predicting[h].pc = "price") ~> (predicting[h].pc # "price")

\* an invocation returned None after `retries` failed requests
C32_Witness ==
    \E h \in Handlers :
        /\ predicting[h].pc = "idle"
        /\ predicting[h].fetches = retries
        /\ predicting[h].price_log = "failed"
        /\ predicting[h].reply = "oracle_down"

(***************************************************************************)
(* C33: the xp of a resolution.                                            *)
(***************************************************************************)
\* C33: a winning resolution awards 50 + 5 * (the streak after the
\* increment) xp, twice that when double_xp_remaining was above 0, which
\* then goes down by 1; a losing resolution awards 10 xp.
C33_XpAwarded ==
    [][\A i \in PredictionIds :
          LET before == player_data[OwnerOf(i)]
              after == player_data'[OwnerOf(i)]
              doubled == before.double_xp_remaining > 0
              win_xp == (50 + 5 * after.streak) * (IF doubled THEN 2 ELSE 1)
          IN  /\ active_predictions[i].result = "none"
                 /\ active_predictions'[i].result = "won"
                     => /\ after.xp - before.xp = win_xp
                        /\ active_predictions'[i].xp_earned = win_xp
                        /\ after.double_xp_remaining =
                              before.double_xp_remaining
                              - (IF doubled THEN 1 ELSE 0)
              /\ active_predictions[i].result = "none"
                 /\ active_predictions'[i].result = "lost"
                     => /\ after.xp - before.xp = 10
                        /\ active_predictions'[i].xp_earned = 10]_vars

\* the fifth win in a row of a player without double XP awarded 75 xp
C33_Witness ==
    \E i \in PredictionIds :
        /\ active_predictions[i].result = "won"
        /\ player_data[OwnerOf(i)].streak = 5
        /\ active_predictions[i].xp_earned = 50 + 5 * 5
        /\ player_data[OwnerOf(i)].double_xp_remaining = 0

(***************************************************************************)
(* C34: the age of a prediction when it is resolved.                       *)
(***************************************************************************)
\* C34: a step that sets the completed flag of a prediction, taken by the
\* scheduled callback or by /check, happens 60 s after the prediction's
\* timestamp or later.
C34_ResolvedWhenDue ==
    [][\A i \in PredictionIds :
          /\ ~active_predictions[i].completed
          /\ active_predictions'[i].completed
          => now - active_predictions[i].timestamp >= PredictionWindow]_vars

\* /check is resolving a prediction that is 60 s old or older
C34_Witness ==
    /\ checking[Owner].pc # "idle"
    /\ active_predictions[checking[Owner].pos].completed
    /\ now - active_predictions[checking[Owner].pos].timestamp >= PredictionWindow

(***************************************************************************)
(* C35: the leaderboard of a chat.                                         *)
(***************************************************************************)
\* user u's entry in the leaderboard of chat c, NoEntry without one
Board(c, u) == group_data[c].leaderboard[u]

\* C35: a leaderboard entry is at most its user's best_streak and never
\* decreases; a winning resolution leaves the owner's entry in the chat of
\* the prediction equal to the owner's best_streak, and a step that is not
\* a winning resolution changes no leaderboard.
C35_Leaderboard ==
    /\ [](\A c \in Chats, u \in Users : Board(c, u) <= player_data[u].best_streak)
    /\ [][/\ \A c \in Chats, u \in Users :
                /\ Board(c, u)' >= Board(c, u)
                /\ Board(c, u)' # Board(c, u)
                   => \E i \in PredictionIds :
                         /\ active_predictions[i].result = "none"
                         /\ active_predictions'[i].result = "won"
                         /\ active_predictions[i].chat_id = c
                         /\ OwnerOf(i) = u
          /\ \A i \in PredictionIds :
                /\ active_predictions[i].result = "none"
                /\ active_predictions'[i].result = "won"
                => Board(active_predictions[i].chat_id, OwnerOf(i))'
                      = player_data'[OwnerOf(i)].best_streak]_vars

\* a win raised the owner's best streak to 5 and the leaderboard shows it
C35_Witness ==
    \E i \in PredictionIds :
        /\ active_predictions[i].result = "won"
        /\ player_data[OwnerOf(i)].best_streak = 5
        /\ Board(active_predictions[i].chat_id, OwnerOf(i)) = 5

(***************************************************************************)
(* C36..C37: the daily challenges that count wins in a row.                *)
(***************************************************************************)
\* this step ran the win branch (lines 660-736) for a prediction of user
\* u, whatever result the prediction had before
WinStepOf(u) ==
    \E i \in PredictionIds :
        /\ OwnerOf(i) = u
        /\ Applied(i)
        /\ active_predictions'[i].result = "won"

\* C36: a daily challenge of type win_streak is marked completed only by a
\* win that brings the streak of its owner to 3 or more.
C36_WinStreakChallenge ==
    [][\A u \in Users :
          /\ daily_challenges[u].type = "win_streak"
          /\ ~daily_challenges[u].completed
          /\ daily_challenges'[u].completed
          => /\ WinStepOf(u)
             /\ player_data'[u].streak >= 3]_vars

\* C37: a win that is at least the third without a loss since the owner
\* drew a daily challenge of type perfect_day leaves that challenge
\* completed.
C37_PerfectDayChallenge ==
    [][\A u \in Users :
          /\ daily_challenges[u].type = "perfect_day"
          /\ WinStepOf(u)
          /\ player_data'[u].perfect_streak >= 3
          => daily_challenges'[u].completed]_vars

(***************************************************************************)
(* C38: the no-price path of check_prediction_result.                      *)
(***************************************************************************)
\* the price_cache entry of the asset of prediction i
CacheOf(i) == price_cache[active_predictions[i].crypto]

\* C38: no prediction is left with the result 'error'.
C38_NoErrorResult ==
    \A i \in PredictionIds : active_predictions[i].result # "error"

\* C38, amended: the asset of a stored prediction always has a cache entry,
\* so the lookup never returns None.  The no-price path is entered exactly
\* when the lookup returns a quote of 0: one the API gives now, or one in
\* the cache, fresh or returned stale because every request failed.  Every
\* other lookup, one whose requests all fail with a non-zero quote in the
\* cache included, resolves the prediction as won or lost against the price
\* in the cache.
C38_ErrorOnlyOnZeroQuote ==
    /\ [](\A i \in PredictionIds : CacheOf(i).price # NoPrice)
    /\ [][\A i \in PredictionIds :
             /\ ErrorEntered(i) => CacheOf(i)'.price = 0
             /\ Applied(i)
                => /\ active_predictions'[i].result \in {"won", "lost"}
                   /\ active_predictions'[i].final_price = CacheOf(i)'.price
                   /\ CacheOf(i)'.price # 0]_vars

\* a prediction resolved against a cached price older than cache_duration:
\* every request of the lookup failed
C38_Witness ==
    \E i \in PredictionIds :
        /\ active_predictions[i].result \in {"won", "lost"}
        /\ now - CacheOf(i).timestamp >= cache_duration
        /\ active_predictions[i].final_price = CacheOf(i).price

(***************************************************************************)
(* C39..C40: the inventory of power-ups.                                   *)
(***************************************************************************)
\* the four inventories of a player record
Inventory(p) ==
    <<p.whale_powerups, p.streak_shields, p.double_xp_remaining, p.lucky_charms>>

\* the whale-mode clicks of user u that were accepted
WhaleActivations(u) ==
    {c \in 1..Len(clicks) : clicks[c].user = u /\ clicks[c].resp = "whale_mode"}

\* C39: no inventory of a player ever increases; whale_powerups is 0 or 1,
\* and a player activates whale mode at most once.
C39_InventoryOnlyShrinks ==
    /\ [](\A u \in Users :
            /\ player_data[u].whale_powerups \in {0, 1}
            /\ Cardinality(WhaleActivations(u)) <= 1
            /\ Cardinality({i \in PredictionIds :
                              OwnerOf(i) = u /\ active_predictions[i].whale_mode})
                 <= 1)
    /\ [][\A u \in Users, k \in 1..4 :
             Inventory(player_data'[u])[k] <= Inventory(player_data[u])[k]]_vars

\* a player who spent the power-up pressed the whale button again and was
\* refused
C39_Witness ==
    \E c1, c2 \in 1..Len(clicks) :
        /\ clicks[c1].user = clicks[c2].user
        /\ clicks[c1].resp = "whale_mode"
        /\ clicks[c2].data = "whale"
        /\ clicks[c2].resp = "no_powerups"
        /\ Inventory(player_data[clicks[c1].user]) = <<0, 0, 0, 0>>

\* C40: a whale-mode click on a prediction that is already completed
\* leaves the whale_powerups of its owner unchanged.
C40_NoWhaleAfterCompletion ==
    [][\A c \in 1..Len(clicks) :
          /\ ClickHandled(c)
          /\ clicks[c].data = "whale"
          /\ active_predictions[clicks[c].pred].completed
          => player_data'[OwnerOf(clicks[c].pred)].whale_powerups
                = player_data[OwnerOf(clicks[c].pred)].whale_powerups]_vars

=============================================================================
